---- MODULE Spec2Model ----
(***************************************************************************)
(* Order & supply-chain consistency engine of the supplier/consumer        *)
(* trading platform (backend/app/services).                                *)
(*                                                                         *)
(* Every HTTP request runs in its own SQLAlchemy AsyncSession              *)
(* (db/session.py get_db), i.e. its own database transaction.  A request   *)
(* is modelled as a slot that walks through the awaits of its handler:     *)
(* the SELECTs read the committed tables at the moment they run, the ORM   *)
(* keeps what it loaded, and the pending writes (absolute column values    *)
(* computed in Python from what was loaded) reach the tables in the step   *)
(* that commits.  An HTTPException leaves the session without commit, so   *)
(* a failed request writes nothing.                                        *)
(***************************************************************************)
EXTENDS Integers, Sequences, FiniteSets, TLC

\* ---------------------------------------------------------------- bounds
MaxStock == 2       \* largest stock_quantity, and largest item quantity, explored
MaxOrders == 1      \* rows the orders table may hold
MaxRowId == 2       \* last id the links / company_blacklist sequences hand out

\* ------------------------------------------------------------ enumerations
\* models/order.py OrderStatus
OrderStatus == {"PENDING", "ACCEPTED", "REJECTED", "IN_DELIVERY", "COMPLETED", "CANCELLED"}
\* models/link.py LinkStatus
LinkStatus == {"PENDING", "APPROVED", "REJECTED", "BLOCKED"}
\* models/user.py UserRole
UserRole == {"CONSUMER", "SUPPLIER_OWNER", "SUPPLIER_MANAGER", "SUPPLIER_SALES"}
\* models/company.py CompanyType
CompanyType == {"SUPPLIER", "CONSUMER"}

\* ------------------------------------------------------------- fixed rows
\* companies table: 1 and 2 are the seeded companies, 3 and 4 registered later
Company == [c \in 1..4 |-> [type |-> IF c \in {1, 4} THEN "SUPPLIER" ELSE "CONSUMER"]]
CompanyIds == DOMAIN Company
MissingIds == {9}   \* ids with no row in any table

\* users table (id, role, company_id)
User(i, r, c) == [id |-> i, role |-> r, company_id |-> c]
Owner1 == User(1, "SUPPLIER_OWNER", 1)
Buyer2 == User(2, "CONSUMER", 2)
Sales1 == User(3, "SUPPLIER_SALES", 1)
Buyer3 == User(4, "CONSUMER", 3)
Owner4 == User(5, "SUPPLIER_OWNER", 4)
Manager1 == User(6, "SUPPLIER_MANAGER", 1)
\* registered with role CONSUMER and a company of type SUPPLIER
Buyer4 == User(7, "CONSUMER", 4)

\* products table as created by create_product; stock_quantity and is_active
\* change afterwards
ProductIds == {1, 2, 3}
InitialProducts ==
    [p \in ProductIds |->
        [supplier_id |-> IF p = 3 THEN 4 ELSE 1,
         price |-> p + 1,
         stock_quantity |-> MaxStock,
         min_order_qty |-> IF p = 2 THEN 2 ELSE 1,
         is_active |-> TRUE]]

Slots == {1, 2}

VARIABLES
    products,    \* products table: id -> row
    orders,      \* orders table with its order_items: sequence, id = index
    links,       \* links table: set of rows
    blacklist,   \* company_blacklist table: set of rows
    seq,         \* id sequences of links and company_blacklist
    req          \* the requests in flight, one per slot

vars == <<products, orders, links, blacklist, seq, req>>
db == <<products, orders, links, blacklist, seq>>

\* ------------------------------------------------------------- requests
NoLoc == [none |-> TRUE]
Idle == [op |-> "idle", pc |-> "idle", user |-> NoLoc, arg |-> NoLoc, loc |-> NoLoc,
         result |-> NoLoc, sent |-> {}]

Request(op, user, arg) ==
    [op |-> op, pc |-> "start", user |-> user, arg |-> arg, loc |-> NoLoc, result |-> NoLoc,
     sent |-> {}]

\* the response of a finished request: 200/201 or the HTTPException raised
Response(code, detail) == [status_code |-> code, detail |-> detail]
OK == Response(200, "")

\* a slot takes the next request once the previous one has been answered
Free(s) == req[s].pc \in {"idle", "done"}

\* the request of slot s ends: the response goes out and the session closes,
\* rolling back whatever was not committed
Finish(s, response) ==
    req' = [req EXCEPT ![s] = [op |-> req[s].op, pc |-> "done", user |-> req[s].user,
                               arg |-> NoLoc, loc |-> NoLoc, result |-> response,
                               sent |-> {}]]

\* broadcast_to_company once per company: the message, and whether it got
\* through (some connection of the company took it) or every send_json raised
\* or no user of the company was connected
Broadcasts(type, companies) ==
    {{[type |-> type, company_id |-> c, delivered |-> f[c]] : c \in companies} :
        f \in [companies -> BOOLEAN]}

\* a handler that lets the exception of a failed send reach its caller
RaisedOnFailedSend(response, sent) ==
    IF \E n \in sent : ~n.delivered THEN [status_code |-> 500, detail |-> "send_json"]
    ELSE response

\* broadcast_to_company passes over the exception of a send: the handler
\* returns what it was about to return
AfterBroadcast(response, sent) == response

\* the request of slot s ends after its commit and its broadcasts
FinishNotified(s, response, sent) ==
    req' = [req EXCEPT ![s] = [op |-> req[s].op, pc |-> "done", user |-> req[s].user,
                               arg |-> NoLoc, loc |-> NoLoc,
                               result |-> AfterBroadcast(response, sent),
                               sent |-> sent]]

\* a handler that goes on only while no other request is in flight
AwaitOthers(s, pc, loc) ==
    /\ \A t \in Slots \ {s} : req[t].pc \in {"idle", "done"}
    /\ req' = [req EXCEPT ![s] = [@ EXCEPT !.pc = pc, !.loc = loc]]

\* the request of slot s goes on to the next await of its handler
Goto(s, pc, loc) ==
    req' = [req EXCEPT ![s] = [@ EXCEPT !.pc = pc, !.loc = loc]]

\* Result.scalar_one_or_none() raises MultipleResultsFound on two or more rows
MultipleResultsFound(rows) == Cardinality(rows) > 1

\* the ORM writes the columns of a loaded row whose value it changed
ApplyColumns(row, cols) ==
    [c \in DOMAIN row |-> IF c \in DOMAIN cols THEN cols[c] ELSE row[c]]

\* flush of the pending product rows: UPDATE products SET col = value WHERE id = p
FlushProducts(table, writes) ==
    [p \in DOMAIN table |->
        IF p \in DOMAIN writes THEN ApplyColumns(table[p], writes[p]) ELSE table[p]]

NoWrites == [p \in {} |-> NoLoc]

\* a session that flushed and committed what was pending when the handler raised
FlushOnError(table, writes) == FlushProducts(table, writes)

\* get_db: the session is left without commit when the handler raises, and the
\* rows it changed in memory never reach the table
Rollback(table, writes) == table

\* core/security.py require_roles: the dependency of the routes that name roles
require_roles(user, roles) == user.role \in roles

\* ------------------------------------------------------------ LinkService
\* the rows of links for one ordered pair
LinksOfPair(supplier_id, consumer_id) ==
    {l \in links : l.supplier_id = supplier_id /\ l.consumer_id = consumer_id}

\* a request that takes any target for a supplier
TargetUnchecked(supplier_id) == OK

\* create_link_request: the checks of the target company
TargetError(supplier_id) ==
    IF supplier_id \notin CompanyIds
    THEN Response(404, "Supplier company not found")
    ELSE IF Company[supplier_id].type # "SUPPLIER"
    THEN Response(400, "Target company is not a Supplier")
    ELSE OK

\* POST /links and create_link_request up to the existence check
create_link_request_check(s) ==
    /\ req[s].op = "create_link_request" /\ req[s].pc = "start"
    /\ LET consumer == req[s].user
           supplier_id == req[s].arg.supplier_id
           existing_link == LinksOfPair(supplier_id, consumer.company_id)
       IN  IF ~require_roles(consumer, {"CONSUMER"})
           THEN Finish(s, Response(403, "Insufficient role"))
           ELSE IF consumer.company_id \notin CompanyIds
              \/ Company[consumer.company_id].type # "CONSUMER"
           THEN Finish(s, Response(403, "Only Consumer companies can request links"))
           ELSE IF TargetError(supplier_id) # OK
           THEN Finish(s, TargetError(supplier_id))
           ELSE IF MultipleResultsFound(existing_link)
           THEN Finish(s, Response(500, "MultipleResultsFound"))
           ELSE IF existing_link # {}
           THEN Finish(s, Response(400, "Link request already exists"))
           ELSE Goto(s, "commit", NoLoc)
    /\ UNCHANGED db

\* create_link_request: db.add(new_link); commit
create_link_request_commit(s) ==
    /\ req[s].op = "create_link_request" /\ req[s].pc = "commit"
    /\ links' = links \cup {[id |-> seq.links + 1,
                             supplier_id |-> req[s].arg.supplier_id,
                             consumer_id |-> req[s].user.company_id,
                             status |-> "PENDING"]}
    /\ seq' = [seq EXCEPT !.links = @ + 1]
    /\ Finish(s, Response(201, ""))
    /\ UNCHANGED <<products, orders, blacklist>>

\* PUT /links/{id}/status and update_link_status up to the permission checks
update_link_status_get(s) ==
    /\ req[s].op = "update_link_status" /\ req[s].pc = "start"
    /\ LET user == req[s].user
           found == {l \in links : l.id = req[s].arg.link_id}
       IN  IF ~require_roles(user, {"SUPPLIER_OWNER", "SUPPLIER_MANAGER", "SUPPLIER_SALES"})
           THEN Finish(s, Response(403, "Insufficient role"))
           ELSE IF found = {}
           THEN Finish(s, Response(404, "Link not found"))
           ELSE LET link == CHOOSE l \in found : TRUE
                IN  IF user.company_id # link.supplier_id
                    THEN Finish(s, Response(403, "You can only manage links for your own company"))
                    ELSE IF user.role \notin {"SUPPLIER_OWNER", "SUPPLIER_MANAGER", "SUPPLIER_SALES"}
                    THEN Finish(s, Response(403, "Insufficient permissions"))
                    ELSE Goto(s, "commit", [link |-> link])
    /\ UNCHANGED db

\* a state machine that lets a link leave PENDING and nothing else
FromPendingOnly(link, status) == IF link.status = "PENDING" THEN status ELSE link.status

\* update_link_status: link.status = status_update.status, whatever it was
WrittenStatus(link, status) == status

\* update_link_status: link.status = status_update.status; commit.  The UPDATE
\* goes by primary key and raises StaleDataError when the row is gone.
update_link_status_commit(s) ==
    /\ req[s].op = "update_link_status" /\ req[s].pc = "commit"
    /\ LET link == req[s].loc.link
           status == WrittenStatus(req[s].loc.link, req[s].arg.status)
       IN  IF status = link.status
           THEN links' = links /\ Finish(s, OK)
           ELSE IF \A l \in links : l.id # link.id
           THEN links' = links /\ Finish(s, Response(500, "StaleDataError"))
           ELSE /\ links' = {IF l.id = link.id THEN [l EXCEPT !.status = status] ELSE l : l \in links}
                /\ Finish(s, OK)
    /\ UNCHANGED <<products, orders, blacklist, seq>>

\* the suppliers of every link of the consumer, whatever its status
linked_supplier_ids(consumer_company_id) ==
    {l.supplier_id : l \in {k \in links : k.consumer_id = consumer_company_id}}

\* get_approved_supplier_ids
get_approved_supplier_ids(consumer_company_id) ==
    {l.supplier_id : l \in {k \in links : k.consumer_id = consumer_company_id
                                          /\ k.status = "APPROVED"}}

\* ----------------------------------------------------------- OrderService
\* a link check that looks at the pair and not at the status
LinksOfAnyStatus(supplier_id, consumer_id) ==
    {l \in links : l.consumer_id = consumer_id /\ l.supplier_id = supplier_id}

\* create_order: the SELECT of the APPROVED link of the pair
ApprovedLinks(supplier_id, consumer_id) ==
    {l \in links : /\ l.consumer_id = consumer_id
                   /\ l.supplier_id = supplier_id
                   /\ l.status = "APPROVED"}

\* POST /orders and create_order up to the link check
create_order_check(s) ==
    /\ req[s].op = "create_order" /\ req[s].pc = "start"
    /\ LET consumer == req[s].user
           supplier_id == req[s].arg.supplier_id
           link == ApprovedLinks(supplier_id, consumer.company_id)
       IN  IF ~require_roles(consumer, {"CONSUMER"})
           THEN Finish(s, Response(403, "Insufficient role"))
           ELSE IF consumer.company_id \notin CompanyIds
              \/ Company[consumer.company_id].type # "CONSUMER"
           THEN Finish(s, Response(403, "Only Consumer companies can create orders"))
           ELSE IF supplier_id \notin CompanyIds \/ Company[supplier_id].type # "SUPPLIER"
           THEN Finish(s, Response(400, "Invalid supplier"))
           ELSE IF MultipleResultsFound(link)
           THEN Finish(s, Response(500, "MultipleResultsFound"))
           ELSE IF link = {}
           THEN Finish(s, Response(403, "You do not have an approved link with this supplier"))
           ELSE Goto(s, "items", [link |-> CHOOSE l \in link : TRUE,
                                  total_amount |-> 0, order_items_data |-> <<>>])
    /\ UNCHANGED db

\* item checks that do not ask whose the product is
ItemErrorAnySupplier(item, supplier_id) ==
    IF item.product_id \notin DOMAIN products THEN Response(404, "Product not found")
    ELSE LET product == products[item.product_id]
         IN  IF ~product.is_active
             THEN Response(400, "Product is not active")
             ELSE IF item.quantity < product.min_order_qty
             THEN Response(400, "Product requires minimum order quantity")
             ELSE IF item.quantity > product.stock_quantity
             THEN Response(400, "Insufficient stock")
             ELSE OK

\* item checks that do not ask for the minimum order quantity
ItemErrorNoMinimum(item, supplier_id) ==
    IF item.product_id \notin DOMAIN products THEN Response(404, "Product not found")
    ELSE LET product == products[item.product_id]
         IN  IF product.supplier_id # supplier_id
             THEN Response(400, "Product does not belong to supplier")
             ELSE IF ~product.is_active
             THEN Response(400, "Product is not active")
             ELSE IF item.quantity > product.stock_quantity
             THEN Response(400, "Insufficient stock")
             ELSE OK

\* the checks of one item of the request against its product row; OK when it passes
ItemError(item, supplier_id) ==
    IF item.product_id \notin DOMAIN products THEN Response(404, "Product not found")
    ELSE LET product == products[item.product_id]
         IN  IF product.supplier_id # supplier_id
             THEN Response(400, "Product does not belong to supplier")
             ELSE IF ~product.is_active
             THEN Response(400, "Product is not active")
             ELSE IF item.quantity < product.min_order_qty
             THEN Response(400, "Product requires minimum order quantity")
             ELSE IF item.quantity > product.stock_quantity
             THEN Response(400, "Insufficient stock")
             ELSE OK

\* a line total that forgets the quantity
ItemTotalOfOne(product, item) == product.price

\* create_order: item_total = float(product.price) * item.quantity (prices are
\* NUMERIC(10,2): counted here in hundredths, where the product is exact)
ItemTotal(product, item) == product.price * item.quantity

\* create_order: one pass of the loop over order_data.items
create_order_item(s) ==
    /\ req[s].op = "create_order" /\ req[s].pc = "items"
    /\ LET loc == req[s].loc
           item == req[s].arg.items[Len(loc.order_items_data) + 1]
           error == ItemError(item, req[s].arg.supplier_id)
       IN  IF error # OK
           THEN Finish(s, error)
           ELSE LET product == products[item.product_id]
                    data == Append(loc.order_items_data,
                                   [product_id |-> item.product_id,
                                    quantity |-> item.quantity,
                                    unit_price_at_time |-> product.price])
                    next == [loc EXCEPT !.total_amount = @ + ItemTotal(product, item),
                                        !.order_items_data = data]
                IN  Goto(s, IF Len(data) = Len(req[s].arg.items) THEN "commit" ELSE "items", next)
    /\ UNCHANGED db

\* an order creation that takes the ordered quantities off the stock
ReserveAtCreation(table, data) ==
    [p \in DOMAIN table |->
        LET rows == {i \in DOMAIN data : data[i].product_id = p}
        IN  IF rows = {} THEN table[p]
            ELSE [table[p] EXCEPT !.stock_quantity = @ - data[CHOOSE i \in rows : TRUE].quantity]]

\* create_order: the product rows after the inserts (the products it loaded
\* are only read, none is written)
CreatedProducts(table, data) == table

\* create_order: db.add(new_order); flush; db.add(order_item)...; commit; then
\* the broadcast to the supplier company.
\* order_items has the primary key (order_id, product_id): a product named twice
\* makes the INSERT fail (IntegrityError) and nothing is committed.
create_order_commit(s) ==
    /\ req[s].op = "create_order" /\ req[s].pc = "commit"
    /\ LET data == req[s].loc.order_items_data
       IN  IF \E i, j \in DOMAIN data : i # j /\ data[i].product_id = data[j].product_id
           THEN orders' = orders /\ products' = products
                /\ Finish(s, Response(500, "IntegrityError"))
           ELSE /\ products' = CreatedProducts(products, data)
                /\ orders' = Append(orders,
                                    [consumer_id |-> req[s].user.company_id,
                                     supplier_id |-> req[s].arg.supplier_id,
                                     status |-> "PENDING",
                                     total_amount |-> req[s].loc.total_amount,
                                     items |-> {data[i] : i \in DOMAIN data}])
                /\ \E sent \in Broadcasts("order_update", {req[s].arg.supplier_id}) :
                     FinishNotified(s, Response(201, ""), sent)
    /\ UNCHANGED <<links, blacklist, seq>>

\* permission checks that ask of a consumer only what they ask of a supplier
SupplierRulesForAll(user, order, status) ==
    IF user.company_id \notin {order.consumer_id, order.supplier_id}
    THEN Response(403, "Not your order")
    ELSE OK

\* permission checks that let a supplier-side user act on any company's order
AnySupplier(user, order, status) ==
    IF user.role = "CONSUMER"
    THEN IF user.company_id # order.consumer_id
         THEN Response(403, "Not your order")
         ELSE IF status # "CANCELLED"
         THEN Response(403, "Consumers can only cancel orders")
         ELSE IF order.status \notin {"PENDING", "ACCEPTED"}
         THEN Response(400, "Order cannot be cancelled in current state")
         ELSE OK
    ELSE OK

\* update_order_status: the permission checks on the loaded order; OK when allowed
PermissionError(user, order, status) ==
    IF user.role = "CONSUMER"
    THEN IF user.company_id # order.consumer_id
         THEN Response(403, "Not your order")
         ELSE IF status # "CANCELLED"
         THEN Response(403, "Consumers can only cancel orders")
         ELSE IF order.status \notin {"PENDING", "ACCEPTED"}
         THEN Response(400, "Order cannot be cancelled in current state")
         ELSE OK
    ELSE IF user.role \in {"SUPPLIER_OWNER", "SUPPLIER_MANAGER", "SUPPLIER_SALES"}
    THEN IF user.company_id # order.supplier_id
         THEN Response(403, "Not your order")
         ELSE OK
    ELSE Response(403, "Insufficient permissions")

\* a choice of routine that restores on every cancellation or rejection
RestoreOnEveryCancel(order, status) ==
    IF status = "ACCEPTED" /\ order.status = "PENDING" THEN "decrement"
    ELSE IF status \in {"CANCELLED", "REJECTED"} THEN "restore"
    ELSE "commit"

\* which inventory routine update_order_status calls for the loaded order
InventoryStep(order, status) ==
    IF status = "ACCEPTED" /\ order.status = "PENDING" THEN "decrement"
    ELSE IF status \in {"CANCELLED", "REJECTED"} /\ order.status = "ACCEPTED" THEN "restore"
    ELSE "commit"

\* update_order_status: db.get(Order) and the permission checks
update_order_status_get(s) ==
    /\ req[s].op = "update_order_status" /\ req[s].pc = "start"
    /\ LET order_id == req[s].arg.order_id
       IN  IF order_id \notin DOMAIN orders
           THEN Finish(s, Response(404, "Order not found"))
           ELSE LET order == orders[order_id]
                    error == PermissionError(req[s].user, order, req[s].arg.status)
                IN  IF error # OK
                    THEN Finish(s, error)
                    ELSE Goto(s, InventoryStep(order, req[s].arg.status),
                              [order |-> order, items |-> order.items, writes |-> NoWrites])
    /\ UNCHANGED db

\* an acceptance that does not look at the stock
NoStockCheck(product, item) == FALSE

\* _decrement_inventory: the stock check of one item on the product row as loaded
InsufficientStock(product, item) == product.stock_quantity < item.quantity

\* an acceptance that takes one unit per item
DecrementedByOne(product, item) == product.stock_quantity - 1

\* _decrement_inventory: product.stock_quantity -= item.quantity
Decremented(product, item) == product.stock_quantity - item.quantity

\* a restore that gives back one unit per item
RestoredByOne(product, item) == product.stock_quantity + 1

\* _restore_inventory: product.stock_quantity += item.quantity
Restored(product, item) == product.stock_quantity + item.quantity

\* the pending write of one product row of the session
Pending(writes, product_id, stock_quantity) ==
    [p \in DOMAIN writes \cup {product_id} |->
        IF p = product_id THEN [stock_quantity |-> stock_quantity] ELSE writes[p]]

\* _decrement_inventory: one pass of the loop.  The SELECT of the items has no
\* ORDER BY, so any item not yet handled may come next; db.get loads the
\* product row as committed now.
decrement_inventory_item(s) ==
    /\ req[s].op = "update_order_status" /\ req[s].pc = "decrement"
    /\ \E item \in req[s].loc.items :
         LET product == products[item.product_id]
             left == req[s].loc.items \ {item}
         IN  IF InsufficientStock(product, item)
             THEN /\ Finish(s, Response(400, "Insufficient stock"))
                  /\ products' = Rollback(products, req[s].loc.writes)
             ELSE /\ Goto(s, IF left = {} THEN "commit" ELSE "decrement",
                          [req[s].loc EXCEPT
                              !.items = left,
                              !.writes = Pending(@, item.product_id, Decremented(product, item))])
                  /\ products' = products
    /\ UNCHANGED <<orders, links, blacklist, seq>>

\* _restore_inventory: one pass of the loop
restore_inventory_item(s) ==
    /\ req[s].op = "update_order_status" /\ req[s].pc = "restore"
    /\ \E item \in req[s].loc.items :
         LET product == products[item.product_id]
             left == req[s].loc.items \ {item}
         IN  /\ Restored(product, item) <= MaxStock
             /\ Goto(s, IF left = {} THEN "commit" ELSE "restore",
                     [req[s].loc EXCEPT
                         !.items = left,
                         !.writes = Pending(@, item.product_id, Restored(product, item))])
    /\ UNCHANGED db

\* update_order_status: order.status = status_update.status; commit, which
\* flushes the product rows changed by the inventory routine and the order row
\* (UPDATE orders SET status WHERE id, emitted when the value differs from the
\* loaded one); then the broadcasts to the supplier and the consumer company
update_order_status_commit(s) ==
    /\ req[s].op = "update_order_status" /\ req[s].pc = "commit"
    /\ products' = FlushProducts(products, req[s].loc.writes)
    /\ orders' = IF req[s].arg.status = req[s].loc.order.status
                 THEN orders
                 ELSE [orders EXCEPT ![req[s].arg.order_id].status = req[s].arg.status]
    /\ \E sent \in Broadcasts("order_update", {req[s].loc.order.supplier_id,
                                                req[s].loc.order.consumer_id}) :
         FinishNotified(s, OK, sent)
    /\ UNCHANGED <<links, blacklist, seq>>

\* --------------------------------------------------------- ProductService
\* update_product: the values assigned to the loaded row.  arg.fields holds the
\* fields of ProductUpdate that are not None (stock_quantity >= 0 by the schema).
AssignedColumns(fields) ==
    IF "is_active" \notin DOMAIN fields /\ "stock_quantity" \in DOMAIN fields
    THEN [c \in DOMAIN fields \cup {"is_active"} |->
            IF c = "is_active" THEN fields.stock_quantity > 0 ELSE fields[c]]
    ELSE fields

\* the assigned columns whose value differs from the loaded one
Changed(row, cols) ==
    [c \in {d \in DOMAIN cols : cols[d] # row[d]} |-> cols[c]]

\* PUT /products/{id} and update_product up to the ownership check, and the
\* assignments
update_product_get(s) ==
    /\ req[s].op = "update_product" /\ req[s].pc = "start"
    /\ LET user == req[s].user
           product_id == req[s].arg.product_id
       IN  IF ~require_roles(user, {"SUPPLIER_OWNER", "SUPPLIER_MANAGER"})
           THEN Finish(s, Response(403, "Insufficient role"))
           ELSE IF user.role \notin {"SUPPLIER_OWNER", "SUPPLIER_MANAGER"}
           THEN Finish(s, Response(403, "Only Supplier Owners/Managers can update products"))
           ELSE IF product_id \notin DOMAIN products
           THEN Finish(s, Response(404, "Product not found"))
           ELSE IF products[product_id].supplier_id # user.company_id
           THEN Finish(s, Response(403, "You can only update your own products"))
           ELSE LET cols == Changed(products[product_id], AssignedColumns(req[s].arg.fields))
                IN  Goto(s, "commit",
                         [writes |-> IF DOMAIN cols = {} THEN NoWrites
                                     ELSE [p \in {product_id} |-> cols]])
    /\ UNCHANGED db

\* update_product: commit; then the route's broadcast to the user's company
update_product_commit(s) ==
    /\ req[s].op = "update_product" /\ req[s].pc = "commit"
    /\ products' = FlushProducts(products, req[s].loc.writes)
    /\ \E sent \in Broadcasts("product_update", {req[s].user.company_id}) :
         FinishNotified(s, OK, sent)
    /\ UNCHANGED <<orders, links, blacklist, seq>>

\* the answer of a read that returns products: 200 and the ids of the rows
Listing(rows) == [status_code |-> 200, detail |-> "", products |-> rows]

\* get_catalog_for_consumer: the WHERE of its product query
Visible(table, approved_supplier_ids) ==
    {p \in DOMAIN table : /\ table[p].supplier_id \in approved_supplier_ids
                          /\ table[p].is_active
                          /\ table[p].stock_quantity > 0}

\* get_supplier_catalog: every product of the user's company
get_supplier_catalog(table, supplier) ==
    {p \in DOMAIN table : table[p].supplier_id = supplier.company_id}

\* no supplier_id in the query string: None, which "if supplier_id" takes as 0
NoSupplier == 0

\* GET /products/catalog: get_supplier_catalog for a supplier's user; for a
\* consumer get_catalog_for_consumer up to the product query
get_catalog(s) ==
    /\ req[s].op = "get_catalog" /\ req[s].pc = "start"
    /\ LET current_user == req[s].user
           supplier_id == req[s].arg.supplier_id
           approved_supplier_ids == get_approved_supplier_ids(current_user.company_id)
       IN  IF current_user.role # "CONSUMER"
           THEN Finish(s, Listing(get_supplier_catalog(products, current_user)))
           ELSE IF approved_supplier_ids = {}
           THEN Finish(s, Listing({}))
           ELSE IF supplier_id # NoSupplier /\ supplier_id \notin approved_supplier_ids
           THEN Finish(s, Response(403, "You don't have an approved link with this supplier"))
           ELSE Goto(s, "products", [approved_supplier_ids |-> approved_supplier_ids])
    /\ UNCHANGED db

\* get_catalog_for_consumer: the product query and its result
get_catalog_for_consumer_products(s) ==
    /\ req[s].op = "get_catalog" /\ req[s].pc = "products"
    /\ LET supplier_id == req[s].arg.supplier_id
           rows == Visible(products, req[s].loc.approved_supplier_ids)
       IN  Finish(s, Listing(IF supplier_id # NoSupplier
                             THEN {p \in rows : products[p].supplier_id = supplier_id}
                             ELSE rows))
    /\ UNCHANGED db

\* GET /products/{id} and get_product_by_id: db.get, and for a supplier's user
\* the ownership check
get_product_by_id_get(s) ==
    /\ req[s].op = "get_product_by_id" /\ req[s].pc = "start"
    /\ LET user == req[s].user
           product_id == req[s].arg.product_id
       IN  IF product_id \notin DOMAIN products
           THEN Finish(s, Response(404, "Product not found"))
           ELSE IF user.role = "CONSUMER"
           THEN Goto(s, "links", [product |-> products[product_id]])
           ELSE IF products[product_id].supplier_id # user.company_id
           THEN Finish(s, Response(403, "Access denied - not your product"))
           ELSE Finish(s, Listing({product_id}))
    /\ UNCHANGED db

\* get_product_by_id for a consumer: the approved link with the product's supplier
get_product_by_id_links(s) ==
    /\ req[s].op = "get_product_by_id" /\ req[s].pc = "links"
    /\ LET product == req[s].loc.product
           approved_supplier_ids == get_approved_supplier_ids(req[s].user.company_id)
       IN  IF product.supplier_id \notin approved_supplier_ids
           THEN Finish(s, Response(403, "Access denied - no approved link with supplier"))
           ELSE Finish(s, Listing({req[s].arg.product_id}))
    /\ UNCHANGED db

\* ------------------------------------------- ConnectionManagementService
\* an existence check that finds no entry
NoEntries(supplier_id, consumer_id) == {}

\* the rows of company_blacklist for one pair
BlacklistOfPair(supplier_id, consumer_id) ==
    {b \in blacklist : b.supplier_id = supplier_id /\ b.consumer_id = consumer_id}

\* POST /connections/block and block_consumer up to the already-blacklisted
\* check.  The route passes the blocker's company as supplier_id.
block_consumer_check(s) ==
    /\ req[s].op = "block_consumer" /\ req[s].pc = "start"
    /\ LET consumer_id == req[s].arg.consumer_id
           existing == BlacklistOfPair(req[s].user.company_id, consumer_id)
       IN  IF req[s].user.role \notin {"SUPPLIER_OWNER", "SUPPLIER_MANAGER"}
           THEN Finish(s, Response(403, "Only Supplier Owners and Managers can block companies"))
           ELSE IF consumer_id \notin CompanyIds
           THEN Finish(s, Response(404, "Consumer company not found"))
           ELSE IF MultipleResultsFound(existing)
           THEN Finish(s, Response(500, "MultipleResultsFound"))
           ELSE IF existing # {}
           THEN Finish(s, Response(400, "Consumer is already blacklisted"))
           ELSE Goto(s, "commit", NoLoc)
    /\ UNCHANGED db

\* a cascade that rejects the open orders of the consumer with every supplier
RejectOrdersOfConsumer(table, supplier_id, consumer_id) ==
    [o \in DOMAIN table |->
        IF /\ table[o].consumer_id = consumer_id
           /\ table[o].status \in {"PENDING", "ACCEPTED", "IN_DELIVERY"}
        THEN [table[o] EXCEPT !.status = "REJECTED"]
        ELSE table[o]]

\* block_consumer: UPDATE orders SET status = REJECTED WHERE the pair AND status
\* IN (PENDING, ACCEPTED, IN_DELIVERY)
RejectOpenOrders(table, supplier_id, consumer_id) ==
    [o \in DOMAIN table |->
        IF /\ table[o].supplier_id = supplier_id
           /\ table[o].consumer_id = consumer_id
           /\ table[o].status \in {"PENDING", "ACCEPTED", "IN_DELIVERY"}
        THEN [table[o] EXCEPT !.status = "REJECTED"]
        ELSE table[o]]

\* a cascade that leaves the links of the pair in place
KeepLinks(table, supplier_id, consumer_id) == table

\* a cascade that marks the links of the pair BLOCKED and keeps the rows
MarkBlocked(table, supplier_id, consumer_id) ==
    {IF l.supplier_id = supplier_id /\ l.consumer_id = consumer_id
     THEN [l EXCEPT !.status = "BLOCKED"] ELSE l : l \in table}

\* block_consumer: DELETE FROM links WHERE the pair
DeleteLinks(table, supplier_id, consumer_id) ==
    {l \in table : ~(l.supplier_id = supplier_id /\ l.consumer_id = consumer_id)}

\* a cascade that gives back what the ACCEPTED orders of the pair hold
RestoreCascade(table, supplier_id, consumer_id) ==
    [p \in DOMAIN table |->
        LET held == {i \in UNION {orders[o].items :
                                    o \in {x \in DOMAIN orders :
                                             /\ orders[x].supplier_id = supplier_id
                                             /\ orders[x].consumer_id = consumer_id
                                             /\ orders[x].status = "ACCEPTED"}} :
                        i.product_id = p}
        IN  IF held = {} THEN table[p]
            ELSE [table[p] EXCEPT !.stock_quantity = @ + (CHOOSE i \in held : TRUE).quantity]]

\* block_consumer: the product rows after the cascade (it touches none)
CascadeProducts(table, supplier_id, consumer_id) == table

\* block_consumer: db.add(blacklist_entry); the UPDATE; the DELETE; commit
block_consumer_commit(s) ==
    /\ req[s].op = "block_consumer" /\ req[s].pc = "commit"
    /\ LET supplier_id == req[s].user.company_id
           consumer_id == req[s].arg.consumer_id
       IN  /\ blacklist' = blacklist \cup {[id |-> seq.blacklist + 1,
                                            supplier_id |-> supplier_id,
                                            consumer_id |-> consumer_id,
                                            blocked_by |-> req[s].user.id]}
           /\ seq' = [seq EXCEPT !.blacklist = @ + 1]
           /\ orders' = RejectOpenOrders(orders, supplier_id, consumer_id)
           /\ links' = DeleteLinks(links, supplier_id, consumer_id)
           /\ products' = CascadeProducts(products, supplier_id, consumer_id)
    /\ Finish(s, OK)

\* DELETE /connections/unblock/{id} and unblock_consumer: the SELECT of the entry
unblock_consumer_get(s) ==
    /\ req[s].op = "unblock_consumer" /\ req[s].pc = "start"
    /\ LET found == BlacklistOfPair(req[s].user.company_id, req[s].arg.consumer_id)
       IN  IF req[s].user.role \notin {"SUPPLIER_OWNER", "SUPPLIER_MANAGER"}
           THEN Finish(s, Response(403, "Only Supplier Owners and Managers can unblock companies"))
           ELSE IF MultipleResultsFound(found)
           THEN Finish(s, Response(500, "MultipleResultsFound"))
           ELSE IF found = {}
           THEN Finish(s, Response(404, "Consumer is not blacklisted"))
           ELSE Goto(s, "commit", [blacklist_entry |-> CHOOSE b \in found : TRUE])
    /\ UNCHANGED db

\* a delete that removes nothing
DeleteNothing(table, blacklist_entry) == table

\* unblock_consumer: DELETE FROM company_blacklist WHERE id = the loaded entry's
DeleteEntry(table, blacklist_entry) == {b \in table : b.id # blacklist_entry.id}

\* an unblock that puts an APPROVED link of the pair back
RestoreLink(table, blacklist_entry) ==
    table \cup {[id |-> 0, supplier_id |-> blacklist_entry.supplier_id,
                 consumer_id |-> blacklist_entry.consumer_id, status |-> "APPROVED"]}

\* unblock_consumer: the links table after it (no statement of it names links)
UnblockedLinks(table, blacklist_entry) == table

\* unblock_consumer: db.delete(blacklist_entry); commit (DELETE by primary key)
unblock_consumer_commit(s) ==
    /\ req[s].op = "unblock_consumer" /\ req[s].pc = "commit"
    /\ blacklist' = DeleteEntry(blacklist, req[s].loc.blacklist_entry)
    /\ links' = UnblockedLinks(links, req[s].loc.blacklist_entry)
    /\ Finish(s, OK)
    /\ UNCHANGED <<products, orders, seq>>

\* DELETE /connections/remove/{consumer_id} and remove_connection, to the
\* SELECT of the link: the supplier is the company of the caller
remove_connection_get(s) ==
    /\ req[s].op = "remove_connection" /\ req[s].pc = "start"
    /\ LET found == LinksOfPair(req[s].user.company_id, req[s].arg.consumer_id)
       IN  IF req[s].user.role \notin {"SUPPLIER_OWNER", "SUPPLIER_MANAGER"}
           THEN Finish(s, Response(403, "Only Supplier Owners and Managers can remove connections"))
           ELSE IF MultipleResultsFound(found)
           THEN Finish(s, Response(500, "MultipleResultsFound"))
           ELSE IF found = {}
           THEN Finish(s, Response(404, "Connection not found"))
           ELSE Goto(s, "commit", [link |-> CHOOSE l \in found : TRUE])
    /\ UNCHANGED db

\* a removal that keeps the row and marks it
MarkRemoved(table, link) ==
    {IF l.id = link.id THEN [l EXCEPT !.status = "REJECTED"] ELSE l : l \in table}

\* remove_connection: DELETE FROM links WHERE id = the loaded link's
DeleteLink(table, link) == {l \in table : l.id # link.id}

\* remove_connection: db.delete(link); commit
remove_connection_commit(s) ==
    /\ req[s].op = "remove_connection" /\ req[s].pc = "commit"
    /\ links' = DeleteLink(links, req[s].loc.link)
    /\ Finish(s, OK)
    /\ UNCHANGED <<products, orders, blacklist, seq>>

Init ==
    /\ products = InitialProducts
    /\ orders = <<>>
    /\ links = {}
    /\ blacklist = {}
    /\ seq = [links |-> 0, blacklist |-> 0]
    /\ req = [s \in Slots |-> Idle]

\* ------------------------------------------------------ the requests made
Item(p, q) == [product_id |-> p, quantity |-> q]

CreateLink(u, c) == Request("create_link_request", u, [supplier_id |-> c])
UpdateLink(u, l, st) == Request("update_link_status", u, [link_id |-> l, status |-> st])
CreateOrder(u, c, il) == Request("create_order", u, [supplier_id |-> c, items |-> il])
UpdateOrder(u, o, st) == Request("update_order_status", u, [order_id |-> o, status |-> st])
UpdateProduct(u, p, fields) == Request("update_product", u, [product_id |-> p, fields |-> fields])
Block(u, c) == Request("block_consumer", u, [consumer_id |-> c])
Unblock(u, c) == Request("unblock_consumer", u, [consumer_id |-> c])
Remove(u, c) == Request("remove_connection", u, [consumer_id |-> c])
Catalog(u, c) == Request("get_catalog", u, [supplier_id |-> c])
GetProduct(u, p) == Request("get_product_by_id", u, [product_id |-> p])

\* the requests of one kind that are in flight
Inserting(op) == Cardinality({s \in Slots : req[s].op = op /\ ~Free(s)})

\* create_order stops at its link check: nothing else is in flight and the
\* pair of the request has no APPROVED link
Refused(r) ==
    /\ \A s \in Slots : Free(s)
    /\ ApprovedLinks(r.arg.supplier_id, r.user.company_id) = {}

\* the bounds of the model: a request that would insert a row past them is not made
Admitted(r) ==
    /\ r.op = "create_order" => \/ Len(orders) + Inserting("create_order") < MaxOrders
                                \/ Refused(r)
    /\ r.op = "create_link_request" => seq.links + Inserting("create_link_request") < MaxRowId
    /\ r.op = "block_consumer" => seq.blacklist + Inserting("block_consumer") < MaxRowId

\* request r arrives at a free slot
Arrive(s, r) ==
    /\ Free(s)
    /\ Admitted(r)
    /\ req' = [req EXCEPT ![s] = r]
    /\ UNCHANGED db

\* ------------------------------------------------------------------ Spec
\* Requests served one at a time, from the seeded database on.
Requests ==
    {CreateLink(Buyer2, 1), CreateLink(Owner1, 1), CreateLink(Buyer2, 2), CreateLink(Buyer4, 1)}
    \cup {CreateLink(Buyer2, c) : c \in MissingIds}
    \cup {UpdateLink(Owner1, l, st) : l \in 1..MaxRowId, st \in LinkStatus}
    \cup {UpdateLink(Owner4, 1, "APPROVED"), UpdateLink(Buyer2, 1, "APPROVED")}
    \cup {CreateOrder(Buyer2, 1, <<Item(1, 1)>>), CreateOrder(Owner1, 1, <<Item(1, 1)>>),
          CreateOrder(Buyer2, 2, <<Item(1, 1)>>), CreateOrder(Buyer2, 1, <<Item(3, 1)>>)}
    \cup {UpdateOrder(Owner1, o, st) :
            o \in 1..MaxOrders, st \in {"ACCEPTED", "IN_DELIVERY", "COMPLETED", "REJECTED"}}
    \cup {UpdateOrder(Buyer2, o, "CANCELLED") : o \in 1..MaxOrders}
    \cup {UpdateProduct(Owner1, 1, [stock_quantity |-> MaxStock])}
    \cup {Block(Owner1, 2), Block(Sales1, 2), Unblock(Owner1, 2)}
    \cup {Block(Owner1, c) : c \in MissingIds}
    \cup {Remove(Owner1, 2), Remove(Sales1, 2), Remove(Buyer2, 1), Remove(Owner4, 2),
          Remove(Manager1, 2)}

Next ==
    \/ \E r \in Requests : Arrive(1, r)
    \/ create_link_request_check(1)
    \/ create_link_request_commit(1)
    \/ update_link_status_get(1)
    \/ update_link_status_commit(1)
    \/ create_order_check(1)
    \/ create_order_item(1)
    \/ create_order_commit(1)
    \/ update_order_status_get(1)
    \/ decrement_inventory_item(1)
    \/ restore_inventory_item(1)
    \/ update_order_status_commit(1)
    \/ update_product_get(1)
    \/ update_product_commit(1)
    \/ block_consumer_check(1)
    \/ block_consumer_commit(1)
    \/ unblock_consumer_get(1)
    \/ unblock_consumer_commit(1)
    \/ remove_connection_get(1)
    \/ remove_connection_commit(1)

Spec == Init /\ [][Next]_vars

\* ------------------------------------------------------------ SpecOrders
\* One order of consumer 2 with supplier 1 under their approved link: every
\* request on the order and on the stock of its products, one at a time.

\* the approved link of the pair (2 requested it, 1 approved it)
ApprovedLink == [id |-> 1, supplier_id |-> 1, consumer_id |-> 2, status |-> "APPROVED"]

\* the order_items rows create_order writes for a quantity of product 1 and of
\* product 2 (0: not ordered), at the price and minimum quantity of the catalog
ItemRows(q1, q2) ==
    {[product_id |-> p, quantity |-> IF p = 1 THEN q1 ELSE q2,
      unit_price_at_time |-> InitialProducts[p].price] :
        p \in {x \in {1, 2} : (IF x = 1 THEN q1 ELSE q2) >= InitialProducts[x].min_order_qty}}

\* the orders row create_order writes for these items
OrderRow(q1, q2, status) ==
    [consumer_id |-> 2, supplier_id |-> 1, status |-> status,
     total_amount |-> q1 * InitialProducts[1].price + q2 * InitialProducts[2].price,
     items |-> ItemRows(q1, q2)]

Quantities(p) == {0} \cup (InitialProducts[p].min_order_qty .. MaxStock)

InitOrders ==
    /\ products = InitialProducts
    /\ \E q1 \in Quantities(1), q2 \in Quantities(2) :
         /\ q1 + q2 > 0
         /\ orders = <<OrderRow(q1, q2, "PENDING")>>
    /\ links = {ApprovedLink}
    /\ blacklist = {}
    /\ seq = [links |-> 1, blacklist |-> 0]
    /\ req = [s \in Slots |-> Idle]

OrderRequests ==
    {UpdateOrder(Owner1, 1, st) : st \in OrderStatus}
    \cup {UpdateOrder(Buyer2, 1, st) : st \in {"CANCELLED", "ACCEPTED", "REJECTED"}}
    \cup {UpdateOrder(Buyer3, 1, "CANCELLED"), UpdateOrder(Owner4, 1, "ACCEPTED"),
          UpdateOrder(Sales1, 1, "ACCEPTED"), UpdateOrder(Manager1, 1, "REJECTED")}
    \cup {UpdateOrder(u, o, "CANCELLED") : u \in {Owner1, Buyer2}, o \in MissingIds}
    \cup {UpdateProduct(Owner1, p, [stock_quantity |-> n]) : p \in {1, 2}, n \in 0..MaxStock}
    \cup {UpdateProduct(Owner1, 2, [is_active |-> b]) : b \in BOOLEAN}
    \cup {UpdateProduct(Sales1, 1, [stock_quantity |-> 0]),
          UpdateProduct(Owner4, 1, [stock_quantity |-> 0])}
    \cup {UpdateProduct(Owner1, p, [stock_quantity |-> 0]) : p \in MissingIds}

NextOrders ==
    \/ \E r \in OrderRequests : Arrive(1, r)
    \/ update_order_status_get(1)
    \/ decrement_inventory_item(1)
    \/ restore_inventory_item(1)
    \/ update_order_status_commit(1)
    \/ update_product_get(1)
    \/ update_product_commit(1)

SpecOrders == InitOrders /\ [][NextOrders]_vars

\* -------------------------------------------------------------- SpecRace
\* Two acceptances in flight at once, of two PENDING orders that share
\* product 1 and together ask for more of it than there is.
InitRace ==
    /\ products = InitialProducts
    /\ \E q1, q2 \in 1..MaxStock, r1, r2 \in {0, MaxStock} :
         /\ q1 + q2 > MaxStock
         /\ orders = <<OrderRow(q1, r1, "PENDING"), OrderRow(q2, r2, "PENDING")>>
    /\ links = {ApprovedLink}
    /\ blacklist = {}
    /\ seq = [links |-> 1, blacklist |-> 0]
    /\ \E u \in {Owner1, Sales1} :
         req = [s \in Slots |-> UpdateOrder(IF s = 1 THEN Owner1 ELSE u, s, "ACCEPTED")]

NextRace ==
    \E s \in Slots :
        \/ update_order_status_get(s)
        \/ decrement_inventory_item(s)
        \/ update_order_status_commit(s)

SpecRace == InitRace /\ [][NextRace]_vars

\* -------------------------------------------------------------- SpecConc
\* Any two requests on the orders, the stock and the blacklist of the pair in
\* flight at once, from the states two orders of the pair can be in.
ConcurrentRequests ==
    {CreateOrder(Buyer2, 1, il) : il \in {<<Item(1, 1)>>, <<Item(2, MaxStock), Item(1, MaxStock)>>}}
    \cup {UpdateOrder(Owner1, o, st) : o \in {1, 2}, st \in {"ACCEPTED", "REJECTED"}}
    \cup {UpdateOrder(Buyer2, o, "CANCELLED") : o \in {1, 2}}
    \cup {UpdateProduct(Owner1, 1, [stock_quantity |-> n]) : n \in {0, MaxStock}}
    \cup {Block(Owner1, 2)}

InitConc ==
    /\ \E n \in 0..MaxStock :
         products = [InitialProducts EXCEPT ![1].stock_quantity = n]
    /\ \E st1, st2 \in {"PENDING", "ACCEPTED"} :
         orders = <<OrderRow(1, 0, st1), OrderRow(MaxStock, MaxStock, st2)>>
    /\ links = {ApprovedLink}
    /\ blacklist = {}
    /\ seq = [links |-> 1, blacklist |-> 0]
    /\ req \in [Slots -> ConcurrentRequests]

NextConc ==
    \E s \in Slots :
        \/ create_order_check(s)
        \/ create_order_item(s)
        \/ create_order_commit(s)
        \/ update_order_status_get(s)
        \/ decrement_inventory_item(s)
        \/ restore_inventory_item(s)
        \/ update_order_status_commit(s)
        \/ update_product_get(s)
        \/ update_product_commit(s)
        \/ block_consumer_check(s)
        \/ block_consumer_commit(s)

SpecConc == InitConc /\ [][NextConc]_vars

\* --------------------------------------------------------- SpecRoundTrip
\* The supplier accepts a PENDING order and then the order is cancelled or
\* rejected, nothing else happening in between.
\* the quantity of product p in an order (0: not ordered)
Quantity(order, p) ==
    LET rows == {i \in order.items : i.product_id = p}
    IN  IF rows = {} THEN 0 ELSE (CHOOSE i \in rows : TRUE).quantity

\* the stock before the acceptance: product 1 as created, product 2 edited
\* down to exactly what the order asks of it
StockBefore(order) ==
    [InitialProducts EXCEPT ![2].stock_quantity = Quantity(order, 2)]

InitRoundTrip ==
    /\ \E q1 \in Quantities(1), q2 \in Quantities(2) :
         /\ q1 + q2 > 0
         /\ orders = <<OrderRow(q1, q2, "PENDING")>>
    /\ products = StockBefore(orders[1])
    /\ links = {ApprovedLink}
    /\ blacklist = {}
    /\ seq = [links |-> 1, blacklist |-> 0]
    /\ req = [s \in Slots |-> Idle]

RoundTripRequests ==
    IF orders[1].status = "PENDING"
    THEN {UpdateOrder(u, 1, "ACCEPTED") : u \in {Owner1, Manager1, Sales1}}
    ELSE IF orders[1].status = "ACCEPTED"
    THEN {UpdateOrder(Buyer2, 1, "CANCELLED"), UpdateOrder(Owner1, 1, "CANCELLED"),
          UpdateOrder(Sales1, 1, "REJECTED")}
    ELSE {}

NextRoundTrip ==
    \/ \E r \in RoundTripRequests : Arrive(1, r)
    \/ update_order_status_get(1)
    \/ decrement_inventory_item(1)
    \/ restore_inventory_item(1)
    \/ update_order_status_commit(1)

SpecRoundTrip == InitRoundTrip /\ [][NextRoundTrip]_vars

\* ------------------------------------------------------------ SpecCreate
\* Consumer 2 places orders with supplier 1 under their approved link while
\* the supplier edits price, stock and activity of its products, moves the
\* orders on and may block the consumer; requests served one at a time.
ItemLists ==
    {<<Item(1, 1)>>,
     <<Item(1, MaxStock), Item(2, MaxStock)>>,
     <<Item(2, MaxStock), Item(1, 1)>>,
     <<Item(1, 1), Item(2, 1)>>,
     <<Item(1, 1), Item(3, 1)>>,
     <<Item(1, 1), Item(1, 1)>>}
    \cup {<<Item(1, 1), Item(p, 1)>> : p \in MissingIds}

CreateRequests ==
    {CreateOrder(Buyer2, 1, il) : il \in ItemLists}
    \cup {CreateOrder(Buyer4, 1, <<Item(1, 1)>>), CreateOrder(Buyer2, 2, <<Item(1, 1)>>),
          CreateOrder(Buyer2, 4, <<Item(3, 1)>>)}
    \cup {UpdateProduct(Owner1, 1, [price |-> InitialProducts[p].price]) : p \in {1, 2}}
    \cup {UpdateProduct(Owner1, 1, [stock_quantity |-> n]) : n \in {1, MaxStock}}
    \cup {UpdateProduct(Owner1, 2, [is_active |-> b]) : b \in BOOLEAN}
    \cup {UpdateOrder(Owner1, o, "ACCEPTED") : o \in 1..MaxOrders}
    \cup {UpdateOrder(Buyer2, o, "CANCELLED") : o \in 1..MaxOrders}
    \cup {Block(Owner1, 2)}

InitCreate ==
    /\ products = InitialProducts
    /\ orders = <<>>
    /\ links = {ApprovedLink}
    /\ blacklist = {}
    /\ seq = [links |-> 1, blacklist |-> 0]
    /\ req = [s \in Slots |-> Idle]

NextCreate ==
    \/ \E r \in CreateRequests : Arrive(1, r)
    \/ create_order_check(1)
    \/ create_order_item(1)
    \/ create_order_commit(1)
    \/ update_product_get(1)
    \/ update_product_commit(1)
    \/ update_order_status_get(1)
    \/ decrement_inventory_item(1)
    \/ restore_inventory_item(1)
    \/ update_order_status_commit(1)
    \/ block_consumer_check(1)
    \/ block_consumer_commit(1)

SpecCreate == InitCreate /\ [][NextCreate]_vars

\* -------------------------------------------------------------- SpecPair
\* Link requests, link decisions, blocking and unblocking of the consumers of
\* supplier 1, two requests in flight at once, from the seeded database on.
PairRequests ==
    {CreateLink(Buyer2, 1), CreateLink(Buyer3, 1)}
    \cup {UpdateLink(Owner1, l, st) : l \in 1..MaxRowId, st \in {"APPROVED", "REJECTED"}}
    \cup {Block(Owner1, 2), Block(Manager1, 2), Unblock(Owner1, 2)}

NextPair ==
    \E s \in Slots :
        \/ \E r \in PairRequests : Arrive(s, r)
        \/ create_link_request_check(s)
        \/ create_link_request_commit(s)
        \/ update_link_status_get(s)
        \/ update_link_status_commit(s)
        \/ block_consumer_check(s)
        \/ block_consumer_commit(s)
        \/ unblock_consumer_get(s)
        \/ unblock_consumer_commit(s)

SpecPair == Init /\ [][NextPair]_vars

\* ----------------------------------------------------------- SpecCatalog
\* Consumers 2 and 3 read the catalog and single products while suppliers 1
\* and 4 decide on the links of consumer 2, edit stock and activity of their
\* products and supplier 1 blocks and unblocks the consumer; requests served
\* one at a time.

\* consumer 2 has its approved link with supplier 1 and has asked supplier 4
PendingLink == [id |-> 2, supplier_id |-> 4, consumer_id |-> 2, status |-> "PENDING"]

InitCatalog ==
    /\ products = InitialProducts
    /\ orders = <<>>
    /\ links = {ApprovedLink, PendingLink}
    /\ blacklist = {}
    /\ seq = [links |-> 2, blacklist |-> 0]
    /\ req = [s \in Slots |-> Idle]

CatalogRequests ==
    {Catalog(u, c) : u \in {Buyer2, Buyer3}, c \in {NoSupplier, 1, 4}}
    \cup {Catalog(Owner1, NoSupplier)}
    \cup {GetProduct(u, p) : u \in {Buyer2, Buyer3, Owner1}, p \in {1, 2, 3}}
    \cup {GetProduct(Buyer2, p) : p \in MissingIds}
    \cup {UpdateLink(Owner1, 1, st) : st \in LinkStatus}
    \cup {UpdateLink(Owner4, 2, st) : st \in {"APPROVED", "REJECTED"}}
    \cup {UpdateProduct(Owner1, 1, [stock_quantity |-> n]) : n \in {0, MaxStock}}
    \cup {UpdateProduct(Owner1, 2, [is_active |-> b]) : b \in BOOLEAN}
    \cup {Block(Owner1, 2), Unblock(Owner1, 2)}

NextCatalog ==
    \/ \E r \in CatalogRequests : Arrive(1, r)
    \/ get_catalog(1)
    \/ get_catalog_for_consumer_products(1)
    \/ get_product_by_id_get(1)
    \/ get_product_by_id_links(1)
    \/ update_link_status_get(1)
    \/ update_link_status_commit(1)
    \/ update_product_get(1)
    \/ update_product_commit(1)
    \/ block_consumer_check(1)
    \/ block_consumer_commit(1)
    \/ unblock_consumer_get(1)
    \/ unblock_consumer_commit(1)

SpecCatalog == InitCatalog /\ [][NextCatalog]_vars

\* -------------------------------------------------------------- SpecLive
\* Two requests in flight at once, each of the six operations on the order,
\* the link and the blacklist of consumer 2 and supplier 1, each run to its
\* answer.  uvicorn's event loop resumes every coroutine whose await has
\* completed, and the database answers every statement: a request that can
\* take a step takes it.

\* consumer 2 has asked supplier 1 for a link
RequestedLink == [id |-> 1, supplier_id |-> 1, consumer_id |-> 2, status |-> "PENDING"]

LiveRequests ==
    {CreateOrder(Buyer2, 1, <<Item(1, 1)>>), CreateLink(Buyer2, 1)}
    \cup {UpdateOrder(Owner1, 1, st) : st \in {"ACCEPTED", "REJECTED"}}
    \cup {UpdateOrder(Buyer2, 1, "CANCELLED")}
    \cup {UpdateLink(Owner1, 1, st) : st \in {"APPROVED", "BLOCKED"}}
    \cup {Block(Owner1, 2), Unblock(Owner1, 2)}

\* the order of the pair is PENDING, or ACCEPTED with the stock of product 1
\* edited down since
InitLive ==
    /\ \E st \in {"PENDING", "ACCEPTED"} :
         /\ orders = <<OrderRow(1, 0, st)>>
         /\ products = [InitialProducts EXCEPT
                          ![1].stock_quantity = IF st = "ACCEPTED" THEN MaxStock - 2
                                                ELSE MaxStock]
    /\ links \in {{ApprovedLink}, {RequestedLink}}
    /\ blacklist = {}
    /\ seq = [links |-> 1, blacklist |-> 0]
    /\ req \in [Slots -> LiveRequests]

\* the steps of the request of slot s
LiveStep(s) ==
    \/ create_link_request_check(s)
    \/ create_link_request_commit(s)
    \/ update_link_status_get(s)
    \/ update_link_status_commit(s)
    \/ create_order_check(s)
    \/ create_order_item(s)
    \/ create_order_commit(s)
    \/ update_order_status_get(s)
    \/ decrement_inventory_item(s)
    \/ restore_inventory_item(s)
    \/ update_order_status_commit(s)
    \/ block_consumer_check(s)
    \/ block_consumer_commit(s)
    \/ unblock_consumer_get(s)
    \/ unblock_consumer_commit(s)

NextLive == \E s \in Slots : LiveStep(s)

SpecLive == InitLive /\ [][NextLive]_vars /\ \A s \in Slots : WF_vars(LiveStep(s))

\* ------------------------------------------------------------ SpecLedger
\* Consumer 2 places orders with supplier 1 under their approved link and the
\* two sides move the orders on: create_order and update_order_status only, no
\* stock edit and no block; requests served one at a time.
LedgerRequests ==
    {CreateOrder(Buyer2, 1, <<Item(1, 1)>>)}
    \cup {UpdateOrder(Owner1, o, st) : o \in 1..MaxOrders, st \in OrderStatus}
    \cup {UpdateOrder(Buyer2, o, "CANCELLED") : o \in 1..MaxOrders}

NextLedger ==
    \/ \E r \in LedgerRequests : Arrive(1, r)
    \/ create_order_check(1)
    \/ create_order_item(1)
    \/ create_order_commit(1)
    \/ update_order_status_get(1)
    \/ decrement_inventory_item(1)
    \/ restore_inventory_item(1)
    \/ update_order_status_commit(1)

SpecLedger == InitCreate /\ [][NextLedger]_vars

\* ------------------------------------------------------------- SpecTwice
\* Two users of supplier 1 accept the same PENDING order at once.
InitTwice ==
    /\ products = InitialProducts
    /\ \E q1 \in Quantities(1), q2 \in Quantities(2) :
         /\ q1 + q2 > 0
         /\ orders = <<OrderRow(q1, q2, "PENDING")>>
    /\ links = {ApprovedLink}
    /\ blacklist = {}
    /\ seq = [links |-> 1, blacklist |-> 0]
    /\ \E u1, u2 \in {Owner1, Manager1, Sales1} :
         req = [s \in Slots |-> UpdateOrder(IF s = 1 THEN u1 ELSE u2, 1, "ACCEPTED")]

NextTwice ==
    \E s \in Slots :
        \/ update_order_status_get(s)
        \/ decrement_inventory_item(s)
        \/ update_order_status_commit(s)

SpecTwice == InitTwice /\ [][NextTwice]_vars

\* -------------------------------------------------------------- SpecEdit
\* Supplier 1 accepts the PENDING order (slot 1) while one of its users sets
\* the stock of product 1 (slot 2).
InitEdit ==
    /\ products = InitialProducts
    /\ \E q1 \in 1..MaxStock, q2 \in Quantities(2) :
         orders = <<OrderRow(q1, q2, "PENDING")>>
    /\ links = {ApprovedLink}
    /\ blacklist = {}
    /\ seq = [links |-> 1, blacklist |-> 0]
    /\ \E u \in {Owner1, Sales1}, v \in {Owner1, Manager1}, n \in 0..MaxStock :
         req = [s \in Slots |-> IF s = 1 THEN UpdateOrder(u, 1, "ACCEPTED")
                                ELSE UpdateProduct(v, 1, [stock_quantity |-> n])]

NextEdit ==
    \E s \in Slots :
        \/ update_order_status_get(s)
        \/ decrement_inventory_item(s)
        \/ update_order_status_commit(s)
        \/ update_product_get(s)
        \/ update_product_commit(s)

SpecEdit == InitEdit /\ [][NextEdit]_vars

\* ------------------------------------------------------------- SpecFrame
\* Suppliers 1 and 4 and consumers 2 and 3: an open and a closed order of the
\* pair (1, 2), an order of consumer 3 with supplier 1 and an order of
\* consumer 2 with supplier 4, each pair under a link; blocks one at a time.

\* the orders row of a consumer with a supplier for one unit of a product
OrderOf(supplier_id, consumer_id, p, status) ==
    [consumer_id |-> consumer_id, supplier_id |-> supplier_id, status |-> status,
     total_amount |-> InitialProducts[p].price,
     items |-> {[product_id |-> p, quantity |-> 1,
                 unit_price_at_time |-> InitialProducts[p].price]}]

InitFrame ==
    /\ products = InitialProducts
    /\ \E st1 \in {"PENDING", "ACCEPTED", "IN_DELIVERY"},
          st2 \in {"COMPLETED", "CANCELLED", "REJECTED"},
          st3, st4 \in {"PENDING", "ACCEPTED"} :
         orders = <<OrderOf(1, 2, 1, st1), OrderOf(1, 2, 1, st2),
                    OrderOf(1, 3, 1, st3), OrderOf(4, 2, 3, st4)>>
    /\ \E l2, l3 \in {"PENDING", "APPROVED"} :
         links = {ApprovedLink,
                  [id |-> 2, supplier_id |-> 1, consumer_id |-> 3, status |-> l2],
                  [id |-> 3, supplier_id |-> 4, consumer_id |-> 2, status |-> l3]}
    /\ blacklist = {}
    /\ seq = [links |-> 3, blacklist |-> 0]
    /\ req = [s \in Slots |-> Idle]

FrameRequests ==
    {Block(Owner1, 2), Block(Manager1, 3), Block(Owner4, 2), Block(Owner4, 3),
     Block(Sales1, 2)}

NextFrame ==
    \/ \E r \in FrameRequests : Arrive(1, r)
    \/ block_consumer_check(1)
    \/ block_consumer_commit(1)

SpecFrame == InitFrame /\ [][NextFrame]_vars

\* ============================================================ properties
\* the products an order has an item of
Ordered(order) == {i.product_id : i \in order.items}

\* the order belongs to the pair and the cascade of block_consumer reaches it
Open(order, supplier_id, consumer_id) ==
    /\ order.supplier_id = supplier_id
    /\ order.consumer_id = consumer_id
    /\ order.status \in {"PENDING", "ACCEPTED", "IN_DELIVERY"}

\* the request of slot s is being handled, and this step is a step of it
Handling(s, op) == req[s].op = op /\ req[s].pc \notin {"idle", "done"} /\ req'[s] # req[s]

Failed(r) == r.pc = "done" /\ r.result.status_code >= 400

\* C1: the stock_quantity of every product is >= 0 in every reachable state,
\* whatever two requests among order creation, acceptance, rejection,
\* cancellation, stock edit and blocking are in flight at once and however
\* their steps interleave.  (SpecConc)
StockNonNegative == \A p \in ProductIds : products[p].stock_quantity >= 0

\* two order status updates ran at once, both were answered 200, one of them an
\* acceptance, and product 1 is sold out
C1_Witness ==
    /\ \A s \in Slots : /\ req[s].op = "update_order_status"
                        /\ req[s].pc = "done"
                        /\ req[s].result = OK
    /\ \E o \in DOMAIN orders : orders[o].status = "ACCEPTED"
    /\ products[1].stock_quantity = 0

\* C2: of two acceptances in flight at once, of two PENDING orders that each
\* fit the stock of product 1 and together exceed it, exactly one is answered
\* 200 and the other 400 Insufficient stock, and the stock of product 1 ends
\* at its initial value less the quantity of the accepted order.  (SpecRace)
C2_ExactlyOneAccepted ==
    (\A s \in Slots : req[s].pc = "done") =>
        \E s, t \in Slots :
            /\ s # t
            /\ req[s].result = OK
            /\ orders[s].status = "ACCEPTED"
            /\ req[t].result = Response(400, "Insufficient stock")
            /\ orders[t].status = "PENDING"
            /\ products[1].stock_quantity = MaxStock - Quantity(orders[s], 1)

\* C3: create_order of a consumer company with a supplier company goes past
\* its link check only if a link of exactly that pair is APPROVED when the
\* check runs; otherwise it is answered 403 and the orders table is left as it
\* was; and every order row that appears is of a pair with an APPROVED link.
\* (Spec)
C3_LinkGate ==
    [][/\ \A s \in Slots :
            (/\ Handling(s, "create_order") /\ req[s].pc = "start"
             /\ req[s].user.role = "CONSUMER"
             /\ Company[req[s].user.company_id].type = "CONSUMER"
             /\ req[s].arg.supplier_id \in CompanyIds
             /\ Company[req[s].arg.supplier_id].type = "SUPPLIER")
            => IF \E l \in links : /\ l.supplier_id = req[s].arg.supplier_id
                                   /\ l.consumer_id = req[s].user.company_id
                                   /\ l.status = "APPROVED"
               THEN req'[s].pc = "items"
               ELSE /\ req'[s].pc = "done"
                    /\ req'[s].result.status_code = 403
                    /\ orders' = orders
       /\ Len(orders') > Len(orders)
            => /\ Len(orders') = Len(orders) + 1
               /\ \A o \in DOMAIN orders : orders'[o] = orders[o]
               /\ \E l \in links : /\ l.supplier_id = orders'[Len(orders')].supplier_id
                                   /\ l.consumer_id = orders'[Len(orders')].consumer_id
                                   /\ l.status = "APPROVED"
      ]_vars

\* an order of consumer 2 with supplier 1 was refused for want of an approved
\* link while a link of the pair, in another status, was there
C3_Witness ==
    /\ req[1].op = "create_order" /\ req[1].pc = "done"
    /\ req[1].result = Response(403, "You do not have an approved link with this supplier")
    /\ \E l \in LinksOfPair(1, 2) : l.status \in {"PENDING", "REJECTED", "BLOCKED"}
    /\ orders = <<>>

\* the edges of the order state machine
Edges ==
    {<<"PENDING", "ACCEPTED">>, <<"PENDING", "REJECTED">>, <<"PENDING", "CANCELLED">>,
     <<"ACCEPTED", "IN_DELIVERY">>, <<"ACCEPTED", "CANCELLED">>, <<"ACCEPTED", "REJECTED">>,
     <<"IN_DELIVERY", "COMPLETED">>}

\* C4: every change of an order's status by update_order_status follows an
\* edge of the order state machine, and a request for any other change
\* (out of a terminal status, or to the current status) fails and leaves the
\* order and the stock as they were.  (SpecOrders)
C4_OnlyEdges ==
    [][/\ \A o \in DOMAIN orders :
            orders'[o].status # orders[o].status
            => <<orders[o].status, orders'[o].status>> \in Edges
       /\ \A s \in Slots :
            (/\ Handling(s, "update_order_status") /\ req[s].pc = "start"
             /\ req[s].arg.order_id \in DOMAIN orders
             /\ <<orders[req[s].arg.order_id].status, req[s].arg.status>> \notin Edges)
            => Failed(req'[s]) /\ UNCHANGED db
      ]_vars

\* C5: while an acceptance of a PENDING order runs through its items nothing
\* is written; if some item asks for more than the stock of its product the
\* acceptance never gets to its commit; and when it stops it is answered
\* 400 Insufficient stock with the order PENDING and every table, the stock of
\* the items already checked included, as it was before the request.
\* (SpecOrders)
C5_AcceptanceAtomic ==
    [][\A s \in Slots :
        (Handling(s, "update_order_status") /\ req[s].pc = "decrement")
        => LET order == orders[req[s].arg.order_id]
               short == {i \in order.items :
                            products[i.product_id].stock_quantity < i.quantity}
           IN  /\ UNCHANGED db
               /\ order.status = "PENDING"
               /\ short # {} => req'[s].pc \in {"decrement", "done"}
               /\ req'[s].pc = "decrement" => req'[s].loc.items # req[s].loc.items
               /\ req'[s].pc = "done"
                    => /\ req'[s].result = Response(400, "Insufficient stock")
                       /\ short # {}
      ]_vars

\* the acceptance of an order of two items was refused: one item fits the
\* stock of its product, the other does not, and the order is still PENDING
C5_Witness ==
    /\ req[1].op = "update_order_status" /\ req[1].pc = "done"
    /\ req[1].result = Response(400, "Insufficient stock")
    /\ orders[1].status = "PENDING"
    /\ \E i, j \in orders[1].items :
         /\ products[i.product_id].stock_quantity >= i.quantity
         /\ products[j.product_id].stock_quantity < j.quantity

\* C6: the step that takes an order from PENDING to ACCEPTED is the commit of
\* an acceptance answered 200; in its pre-state every item fits the stock of
\* its product as it is then, and the same step takes exactly the item's
\* quantity off the stock of each product of the order and leaves every other
\* product row as it was; an acceptance of a PENDING order that commits does
\* write the status.  (SpecOrders)
C6_AcceptDecrements ==
    [][/\ \A o \in DOMAIN orders :
            (orders[o].status = "PENDING" /\ orders'[o].status = "ACCEPTED")
            => /\ \A i \in orders[o].items :
                    /\ products[i.product_id].stock_quantity >= i.quantity
                    /\ products'[i.product_id] =
                         [products[i.product_id] EXCEPT !.stock_quantity = @ - i.quantity]
               /\ \A p \in ProductIds \ Ordered(orders[o]) : products'[p] = products[p]
               /\ \E s \in Slots :
                    /\ Handling(s, "update_order_status")
                    /\ req[s].arg = [order_id |-> o, status |-> "ACCEPTED"]
                    /\ req'[s].pc = "done" /\ req'[s].result = OK
       /\ \A s \in Slots :
            (/\ Handling(s, "update_order_status") /\ req[s].pc = "commit"
             /\ req[s].arg.status = "ACCEPTED"
             /\ orders[req[s].arg.order_id].status = "PENDING")
            => orders'[req[s].arg.order_id].status = "ACCEPTED"
      ]_vars

\* an order was accepted against a stock of product 1 that is not the stock
\* the order was created against: the acceptance left less than MaxStock less
\* the quantity
C6_Witness ==
    /\ req[1].op = "update_order_status" /\ req[1].pc = "done" /\ req[1].result = OK
    /\ orders[1].status = "ACCEPTED"
    /\ Quantity(orders[1], 1) > 0
    /\ products[1].stock_quantity + Quantity(orders[1], 1) < MaxStock

\* the step that takes an order from ACCEPTED to CANCELLED or REJECTED adds the
\* item's quantity to the stock of each product of the order and leaves every
\* other product row as it was
C7_RestoreStep ==
    [][\A o \in DOMAIN orders :
        (orders[o].status = "ACCEPTED" /\ orders'[o].status \in {"CANCELLED", "REJECTED"})
        => /\ \A i \in orders[o].items :
                products'[i.product_id] =
                    [products[i.product_id] EXCEPT !.stock_quantity = @ + i.quantity]
           /\ \A p \in ProductIds \ Ordered(orders[o]) : products'[p] = products[p]
      ]_vars

\* C7: an ACCEPTED order that is cancelled (by the consumer or the supplier) or
\* rejected gets the quantity of each item added back to the stock of its
\* product, and an order accepted and then cancelled or rejected, nothing else
\* in between, leaves every product row as it was before the acceptance.
\* (SpecRoundTrip)
C7_RoundTrip ==
    /\ C7_RestoreStep
    /\ [](orders[1].status \in {"CANCELLED", "REJECTED"} => products = StockBefore(orders[1]))

\* an order of two items was accepted and then cancelled by the consumer
C7_Witness ==
    /\ req[1].op = "update_order_status" /\ req[1].pc = "done" /\ req[1].result = OK
    /\ orders[1].status = "CANCELLED"
    /\ Cardinality(orders[1].items) = 2

\* C8: the step in which block_consumer is answered 200 adds one blacklist row
\* of the pair, turns every PENDING, ACCEPTED or IN_DELIVERY order of the pair
\* to REJECTED and no other, and removes every link of the pair and no other,
\* all three at once; every other step of block_consumer, a failing one
\* included, leaves every table as it was.  (Spec)
C8_BlockAtomic ==
    [][\A s \in Slots :
        Handling(s, "block_consumer")
        => LET supplier_id == req[s].user.company_id
               consumer_id == req[s].arg.consumer_id
           IN  IF req'[s].pc = "done" /\ req'[s].result = OK
               THEN /\ blacklist \subseteq blacklist'
                    /\ Cardinality(blacklist' \ blacklist) = 1
                    /\ \A b \in blacklist' \ blacklist :
                         b.supplier_id = supplier_id /\ b.consumer_id = consumer_id
                    /\ DOMAIN orders' = DOMAIN orders
                    /\ \A o \in DOMAIN orders :
                         orders'[o] = IF Open(orders[o], supplier_id, consumer_id)
                                      THEN [orders[o] EXCEPT !.status = "REJECTED"]
                                      ELSE orders[o]
                    /\ links' \subseteq links
                    /\ \A l \in links :
                         l \in links' <=> ~(l.supplier_id = supplier_id /\ l.consumer_id = consumer_id)
               ELSE UNCHANGED db
      ]_vars

\* supplier 1 blocked consumer 2: the entry is there, the order of the pair is
\* REJECTED and the link the pair had is gone
C8_Witness ==
    /\ req[1].op = "block_consumer" /\ req[1].pc = "done" /\ req[1].result = OK
    /\ BlacklistOfPair(1, 2) # {}
    /\ Len(orders) > 0 /\ orders[1].status = "REJECTED"
    /\ seq.links > 0 /\ LinksOfPair(1, 2) = {}

\* C9: no step of block_consumer changes a product row: the orders its cascade
\* turns from ACCEPTED or IN_DELIVERY to REJECTED keep what they took off the
\* stock.  (Spec)
C9_BlockKeepsStock ==
    [][/\ \A s \in Slots : Handling(s, "block_consumer") => products' = products
       /\ blacklist' # blacklist /\ blacklist \subseteq blacklist' => products' = products
      ]_vars

\* supplier 1 blocked consumer 2 whose order had been accepted: the order is
\* REJECTED and product 1 is still short of what the order took
C9_Witness ==
    /\ req[1].op = "block_consumer" /\ req[1].pc = "done" /\ req[1].result = OK
    /\ Len(orders) > 0 /\ orders[1].status = "REJECTED"
    /\ products[1].stock_quantity = MaxStock - Quantity(orders[1], 1)
    /\ Quantity(orders[1], 1) > 0

\* C10: an update_order_status request of a CONSUMER user is answered 200 only
\* if it asks for CANCELLED, the order is of the user's company and the order
\* is PENDING or ACCEPTED, and then the order is CANCELLED; any other such
\* request fails and leaves every table as it was.  (SpecOrders)
C10_ConsumerOnlyCancels ==
    [][\A s \in Slots :
        (Handling(s, "update_order_status") /\ req[s].user.role = "CONSUMER")
        => LET o == req[s].arg.order_id
               allowed == /\ o \in DOMAIN orders
                          /\ req[s].arg.status = "CANCELLED"
                          /\ orders[o].consumer_id = req[s].user.company_id
                          /\ orders[o].status \in {"PENDING", "ACCEPTED"}
           IN  /\ ~allowed => Failed(req'[s]) /\ UNCHANGED db
               /\ (req'[s].pc = "done" /\ req'[s].result = OK)
                    => allowed /\ orders'[o].status = "CANCELLED"
               /\ orders' # orders => allowed
      ]_vars

\* the consumer of the order asked to cancel it once it was in delivery and
\* was refused
C10_Witness ==
    /\ req[1].op = "update_order_status" /\ req[1].pc = "done"
    /\ req[1].result = Response(400, "Order cannot be cancelled in current state")
    /\ orders[1].status = "IN_DELIVERY"

\* the three supplier-side roles
SupplierRoles == {"SUPPLIER_OWNER", "SUPPLIER_MANAGER", "SUPPLIER_SALES"}

\* C11: an update_order_status request of a supplier-side user on an order
\* whose supplier is not the user's company is answered 403 and leaves every
\* table as it was; a supplier-side request changes an order only when the
\* order's supplier is the user's company.  (SpecOrders)
C11_SupplierOwnOrdersOnly ==
    [][\A s \in Slots :
        (Handling(s, "update_order_status") /\ req[s].user.role \in SupplierRoles)
        => LET o == req[s].arg.order_id
           IN  /\ (o \in DOMAIN orders /\ orders[o].supplier_id # req[s].user.company_id)
                    => /\ req'[s].pc = "done"
                       /\ req'[s].result.status_code = 403
                       /\ UNCHANGED db
               /\ (orders' # orders \/ products' # products)
                    => orders[o].supplier_id = req[s].user.company_id
      ]_vars

\* the owner of supplier 4 asked to accept the order placed with supplier 1
\* and was refused
C11_Witness ==
    /\ req[1].op = "update_order_status" /\ req[1].pc = "done"
    /\ req[1].user = Owner4
    /\ req[1].result = Response(403, "Not your order")
    /\ orders[1].supplier_id = 1 /\ orders[1].status = "PENDING"

\* C12: the step that adds an order row is the commit of a create_order
\* answered 201, the new order is PENDING, and no step of create_order changes
\* a product row: nothing is reserved, so PENDING orders may together ask for
\* more of a product than its stock.  (SpecConc)
C12_CreationReservesNothing ==
    [][/\ \A s \in Slots : Handling(s, "create_order") => products' = products
       /\ Len(orders') > Len(orders)
            => /\ products' = products
               /\ orders'[Len(orders')].status = "PENDING"
               /\ \E s \in Slots : /\ Handling(s, "create_order")
                                   /\ req'[s].pc = "done"
                                   /\ req'[s].result = Response(201, "")
      ]_vars

\* an order for product 1 was just created next to another PENDING order for
\* it: each fits the stock of product 1, together they ask for more
C12_Witness ==
    /\ \E s \in Slots : /\ req[s].op = "create_order" /\ req[s].pc = "done"
                        /\ req[s].result = Response(201, "")
    /\ Len(orders) = 3
    /\ orders[2].status = "PENDING" /\ orders[3].status = "PENDING"
    /\ Quantity(orders[2], 1) <= products[1].stock_quantity
    /\ Quantity(orders[3], 1) <= products[1].stock_quantity
    /\ Quantity(orders[2], 1) + Quantity(orders[3], 1) > products[1].stock_quantity

\* an item of a create_order request that fails a check on the product rows
\* as they are now
BadItem(item, supplier_id) ==
    \/ item.product_id \notin ProductIds
    \/ products[item.product_id].supplier_id # supplier_id
    \/ ~products[item.product_id].is_active
    \/ item.quantity < products[item.product_id].min_order_qty
    \/ item.quantity > products[item.product_id].stock_quantity

\* C13: a create_order request with an item that fails a check (product
\* missing, of another supplier, inactive, quantity below the minimum or above
\* the stock) never gets to its commit and adds no order row, whichever item
\* it is; and a create_order that is not answered 201 leaves every table as it
\* was.  (SpecCreate)
C13_NoPartialOrder ==
    [][\A s \in Slots :
        Handling(s, "create_order")
        => /\ (\E i \in DOMAIN req[s].arg.items :
                    BadItem(req[s].arg.items[i], req[s].arg.supplier_id))
                => /\ req'[s].pc # "commit"
                   /\ orders' = orders
                   /\ req'[s].pc = "done" => Failed(req'[s])
           /\ (req'[s].pc = "done" /\ req'[s].result # Response(201, ""))
                => UNCHANGED db
           /\ req'[s].pc # "done" => UNCHANGED db
      ]_vars

\* an order of two items was refused at its second item, below the minimum
\* order quantity of product 2, after its first item had passed: no order row
C13_Witness ==
    /\ req[1].op = "create_order" /\ req[1].pc = "done"
    /\ req[1].result = Response(400, "Product requires minimum order quantity")
    /\ products[1].is_active /\ products[1].stock_quantity >= 1
    /\ orders = <<>>

\* C14: when an order row appears, every item of it is of a product that, as
\* the product rows are at that moment, belongs to the order's supplier, is
\* active, and has min_order_qty <= quantity <= stock_quantity; the order has
\* an item, its consumer company is of type CONSUMER and its supplier company
\* of type SUPPLIER.  (SpecCreate)
C14_ItemsValidAtCreation ==
    [][Len(orders') > Len(orders)
        => LET order == orders'[Len(orders')]
           IN  /\ order.items # {}
               /\ \A i \in order.items :
                    /\ i.product_id \in ProductIds
                    /\ products[i.product_id].supplier_id = order.supplier_id
                    /\ products[i.product_id].is_active
                    /\ i.quantity >= products[i.product_id].min_order_qty
                    /\ i.quantity <= products[i.product_id].stock_quantity
               /\ Company[order.consumer_id].type = "CONSUMER"
               /\ Company[order.supplier_id].type = "SUPPLIER"
      ]_vars

\* an order of two items, product 2 at its minimum order quantity, was created
C14_Witness ==
    /\ req[1].op = "create_order" /\ req[1].pc = "done"
    /\ req[1].result = Response(201, "")
    /\ Cardinality(orders[Len(orders)].items) = 2
    /\ Quantity(orders[Len(orders)], 2) = products[2].min_order_qty

\* the sum over the items of unit_price_at_time x quantity
RECURSIVE LineSum(_)
LineSum(items) ==
    IF items = {} THEN 0
    ELSE LET i == CHOOSE x \in items : TRUE
         IN  i.unit_price_at_time * i.quantity + LineSum(items \ {i})

\* when an order row appears each unit_price_at_time is the price of the
\* product at that moment, and no step changes the total_amount or the items
\* of an order that is there
C15_Snapshot ==
    [][/\ Len(orders') > Len(orders)
            => \A i \in orders'[Len(orders')].items :
                    i.unit_price_at_time = products[i.product_id].price
       /\ \A o \in DOMAIN orders :
            /\ o \in DOMAIN orders'
            /\ orders'[o].total_amount = orders[o].total_amount
            /\ orders'[o].items = orders[o].items
      ]_vars

\* C15: the total_amount of every order is the sum over its items of
\* unit_price_at_time x quantity, unit_price_at_time being the product's
\* price when the order was created, and neither changes afterwards, whatever
\* price edit, status change or blacklist cascade follows.  (SpecCreate)
C15_TotalIsLineSum ==
    /\ C15_Snapshot
    /\ [](\A o \in DOMAIN orders : orders[o].total_amount = LineSum(orders[o].items))

\* an order of two items, more than one unit of each, was rejected by the
\* blacklist cascade after the price of one of its products had been changed
C15_Witness ==
    /\ Len(orders) > 0 /\ blacklist # {}
    /\ orders[1].status = "REJECTED"
    /\ Cardinality(orders[1].items) = 2
    /\ \A i \in orders[1].items : i.quantity > 1
    /\ \E i \in orders[1].items : i.unit_price_at_time # products[i.product_id].price

\* the status changes that have no inventory effect
NoInventoryEdges ==
    {<<"PENDING", "CANCELLED">>, <<"PENDING", "REJECTED">>,
     <<"ACCEPTED", "IN_DELIVERY">>, <<"IN_DELIVERY", "COMPLETED">>}

\* C16: a step that takes an order from PENDING to CANCELLED or REJECTED, from
\* ACCEPTED to IN_DELIVERY or from IN_DELIVERY to COMPLETED leaves every
\* product row as it was.  (SpecOrders)
C16_NoInventoryEffect ==
    [][\A o \in DOMAIN orders :
        <<orders[o].status, orders'[o].status>> \in NoInventoryEdges
        => products' = products
      ]_vars

\* an accepted order went into delivery: what the acceptance took off the
\* stock of product 1 is still off
C16_Witness ==
    /\ req[1].op = "update_order_status" /\ req[1].pc = "done" /\ req[1].result = OK
    /\ orders[1].status = "IN_DELIVERY"
    /\ Quantity(orders[1], 1) > 0
    /\ products[1].stock_quantity = MaxStock - Quantity(orders[1], 1)

\* C17: in every reachable state, whatever link requests and other requests
\* run at the same time, there is at most one links row per ordered pair
\* (supplier_id, consumer_id).  (SpecPair)
C17_OneLinkPerPair ==
    \A l, k \in links :
        (l.supplier_id = k.supplier_id /\ l.consumer_id = k.consumer_id) => l = k

\* C18: in every reachable state, whatever block requests and other requests
\* run at the same time, there is at most one company_blacklist row per pair
\* (supplier_id, consumer_id).  (SpecPair)
C18_OneEntryPerPair ==
    \A b, c \in blacklist :
        (b.supplier_id = c.supplier_id /\ b.consumer_id = c.consumer_id) => b = c

\* the rows of company_blacklist are inserted and deleted, never changed: a
\* row whose id stays in the table stays the same row
BlacklistAppendDeleteOnly ==
    [][\A b \in blacklist : \A c \in blacklist' : c.id = b.id => c = b]_vars

\* C19: a block_consumer request of an owner or manager is answered 404 when
\* the consumer company has no row, and 400 "already blacklisted" when a
\* company_blacklist row of the pair is there; in both cases every table
\* (blacklist, orders, links, products) is left as it was.  (Spec)
C19_BlockFailures ==
    [][\A s \in Slots :
        (/\ Handling(s, "block_consumer") /\ req[s].pc = "start"
         /\ req[s].user.role \in {"SUPPLIER_OWNER", "SUPPLIER_MANAGER"})
        => LET supplier_id == req[s].user.company_id
               consumer_id == req[s].arg.consumer_id
           IN  /\ consumer_id \notin CompanyIds
                    => /\ req'[s].pc = "done"
                       /\ req'[s].result.status_code = 404
                       /\ UNCHANGED db
               /\ (/\ consumer_id \in CompanyIds
                   /\ \E b \in blacklist : /\ b.supplier_id = supplier_id
                                           /\ b.consumer_id = consumer_id)
                    => /\ req'[s].pc = "done"
                       /\ req'[s].result = Response(400, "Consumer is already blacklisted")
                       /\ UNCHANGED db
      ]_vars

\* supplier 1 asked to block consumer 2 a second time and was refused: the one
\* entry of the pair is there
C19_Witness ==
    /\ req[1].op = "block_consumer" /\ req[1].pc = "done"
    /\ req[1].result = Response(400, "Consumer is already blacklisted")
    /\ Cardinality(BlacklistOfPair(1, 2)) = 1

\* C20: an unblock_consumer request of an owner or manager is answered 200
\* only when a company_blacklist row of the pair is there, and the step that
\* answers removes exactly that row and touches nothing else, leaving no row
\* of the pair; with no row of the pair (as after a first unblock) it is
\* answered 404 and every table is left as it was.  (Spec)
C20_UnblockOnce ==
    [][\A s \in Slots :
        Handling(s, "unblock_consumer")
        => LET entries == {b \in blacklist : /\ b.supplier_id = req[s].user.company_id
                                             /\ b.consumer_id = req[s].arg.consumer_id}
           IN  /\ (req[s].pc = "start" /\ entries = {})
                    => /\ req'[s].pc = "done"
                       /\ req'[s].result.status_code \in {403, 404}
               /\ IF req'[s].pc = "done" /\ req'[s].result = OK
                  THEN /\ Cardinality(entries) = 1
                       /\ blacklist' = blacklist \ entries
                       /\ UNCHANGED <<products, orders, links, seq>>
                  ELSE UNCHANGED db
      ]_vars

\* supplier 1 had blocked consumer 2 and unblocked it; a further unblock was
\* answered 404 and the blacklist is empty
C20_Witness ==
    /\ req[1].op = "unblock_consumer" /\ req[1].pc = "done"
    /\ req[1].user = Owner1
    /\ req[1].result = Response(404, "Consumer is not blacklisted")
    /\ seq.blacklist > 0 /\ blacklist = {}

\* C21: no step of an unblock_consumer request changes the links, the orders
\* or the products: it creates or restores no link and reopens no order.  So
\* after a block and an unblock the pair still has no link, the orders the
\* block rejected are still REJECTED, and a create_order of the consumer is
\* answered 403 as long as the pair has no APPROVED link.  (Spec)
C21_UnblockFrame ==
    [][\A s \in Slots :
        /\ Handling(s, "unblock_consumer")
              => links' = links /\ orders' = orders /\ products' = products
        /\ (/\ Handling(s, "create_order") /\ req[s].pc = "start"
            /\ ApprovedLinks(req[s].arg.supplier_id, req[s].user.company_id) = {})
              => Failed(req'[s]) /\ UNCHANGED db
      ]_vars

\* consumer 2 had a link and an order with supplier 1; the supplier blocked the
\* consumer and unblocked it again: the order is REJECTED, the pair has no
\* link and no blacklist entry, and a new order of the consumer was refused
C21_Witness ==
    /\ req[1].op = "create_order" /\ req[1].pc = "done" /\ req[1].user = Buyer2
    /\ req[1].result = Response(403, "You do not have an approved link with this supplier")
    /\ seq.blacklist = 1 /\ blacklist = {}
    /\ seq.links = 1 /\ LinksOfPair(1, 2) = {}
    /\ Len(orders) = 1 /\ orders[1].status = "REJECTED"

\* C22: a block_consumer that is answered 200 leaves no links row of the pair,
\* and from then on a link request of the consumer to that supplier is not
\* held back by the blacklist entry: with no row of the pair it passes every
\* check, and its commit inserts one new PENDING row of the pair under a fresh
\* id and answers 201.  (Spec)
C22_LinkAfterBlock ==
    [][\A s \in Slots :
        /\ (Handling(s, "block_consumer") /\ req'[s].pc = "done" /\ req'[s].result = OK)
              => \A l \in links' : ~(/\ l.supplier_id = req[s].user.company_id
                                     /\ l.consumer_id = req[s].arg.consumer_id)
        /\ (/\ Handling(s, "create_link_request") /\ req[s].pc = "start"
            /\ req[s].user.role = "CONSUMER"
            /\ Company[req[s].user.company_id].type = "CONSUMER"
            /\ req[s].arg.supplier_id \in CompanyIds
            /\ Company[req[s].arg.supplier_id].type = "SUPPLIER"
            /\ LinksOfPair(req[s].arg.supplier_id, req[s].user.company_id) = {})
              => req'[s].pc = "commit"
        /\ (Handling(s, "create_link_request") /\ req[s].pc = "commit")
              => /\ req'[s].pc = "done" /\ req'[s].result.status_code = 201
                 /\ \E l \in links' \ links :
                      /\ links' = links \cup {l}
                      /\ l.supplier_id = req[s].arg.supplier_id
                      /\ l.consumer_id = req[s].user.company_id
                      /\ l.status = "PENDING"
                      /\ \A k \in links : k.id # l.id
      ]_vars

\* supplier 1 blocked consumer 2, which deleted their first link; the entry is
\* still there, and a new link request of consumer 2 was answered 201: the
\* pair has one row, PENDING, under the next id
C22_Witness ==
    /\ req[1].op = "create_link_request" /\ req[1].pc = "done"
    /\ req[1].result.status_code = 201
    /\ BlacklistOfPair(1, 2) # {}
    /\ \E l \in links : /\ LinksOfPair(1, 2) = {l}
                         /\ l.id = 2 /\ l.status = "PENDING"

\* C23: a link request of a user whose company is not of type CONSUMER is
\* answered 403; of a consumer, 404 when the target company has no row and 400
\* "Target company is not a Supplier" when the target is not of type SUPPLIER.
\* A request that ends with an error leaves the links as they were, and one
\* answered 201 leaves exactly one row of the pair, PENDING.  (Spec)
C23_LinkRequestContract ==
    [][\A s \in Slots :
        Handling(s, "create_link_request")
        => LET consumer == req[s].user
               supplier_id == req[s].arg.supplier_id
           IN  /\ (req[s].pc = "start" /\ Company[consumer.company_id].type # "CONSUMER")
                    => req'[s].pc = "done" /\ req'[s].result.status_code = 403
               /\ (/\ req[s].pc = "start"
                   /\ consumer.role = "CONSUMER"
                   /\ Company[consumer.company_id].type = "CONSUMER"
                   /\ supplier_id \notin CompanyIds)
                    => req'[s].pc = "done" /\ req'[s].result.status_code = 404
               /\ (/\ req[s].pc = "start"
                   /\ consumer.role = "CONSUMER"
                   /\ Company[consumer.company_id].type = "CONSUMER"
                   /\ supplier_id \in CompanyIds
                   /\ Company[supplier_id].type # "SUPPLIER")
                    => /\ req'[s].pc = "done"
                       /\ req'[s].result = Response(400, "Target company is not a Supplier")
               /\ Failed(req'[s]) => UNCHANGED db
               /\ req'[s].pc = "commit" => UNCHANGED db
               /\ (req'[s].pc = "done" /\ req'[s].result.status_code = 201)
                    => \E l \in links' :
                         /\ l \notin links
                         /\ l.status = "PENDING"
                         /\ {k \in links' : /\ k.supplier_id = supplier_id
                                            /\ k.consumer_id = consumer.company_id} = {l}
      ]_vars

\* after consumer 2 got a link to supplier 1, a user with the CONSUMER role in
\* a SUPPLIER company asked for a link and was answered 403: the links are
\* the one row of before
C23_Witness ==
    /\ req[1].op = "create_link_request" /\ req[1].pc = "done"
    /\ req[1].user = Buyer4
    /\ req[1].result = Response(403, "Only Consumer companies can request links")
    /\ seq.links = 1 /\ Cardinality(links) = 1

\* the supplier-side roles of update_link_status
LinkRoles == {"SUPPLIER_OWNER", "SUPPLIER_MANAGER", "SUPPLIER_SALES"}

\* C24: the status of a links row changes only in a step of an
\* update_link_status request whose user has a supplier-side role in the
\* company that is the row's supplier.  A request of another role or another
\* company is answered 403, and of a supplier-side role for a link that has no
\* row 404, the links unchanged.  A request that passed the checks writes the
\* status it was given whatever the status of the row was, so that each of
\* PENDING, APPROVED, REJECTED, BLOCKED follows each other.  (Spec)
C24_LinkStatusWrite ==
    [][/\ \A l \in links : \A k \in links' :
           (k.id = l.id /\ k.status # l.status)
             => \E s \in Slots :
                  /\ Handling(s, "update_link_status")
                  /\ req[s].arg.link_id = l.id
                  /\ req[s].user.role \in LinkRoles
                  /\ req[s].user.company_id = l.supplier_id
                  /\ k.status = req[s].arg.status
       /\ \A s \in Slots :
           Handling(s, "update_link_status")
           => LET user == req[s].user
                  found == {l \in links : l.id = req[s].arg.link_id}
              IN  /\ (/\ req[s].pc = "start"
                      /\ \/ user.role \notin LinkRoles
                         \/ \E l \in found : l.supplier_id # user.company_id)
                       => /\ req'[s].pc = "done" /\ req'[s].result.status_code = 403
                          /\ links' = links
                  /\ (req[s].pc = "start" /\ user.role \in LinkRoles /\ found = {})
                       => /\ req'[s].pc = "done" /\ req'[s].result.status_code = 404
                          /\ links' = links
                  /\ (/\ req[s].pc = "start" /\ user.role \in LinkRoles
                      /\ \E l \in found : l.supplier_id = user.company_id)
                       => req'[s].pc = "commit" /\ links' = links
                  /\ (req[s].pc = "commit" /\ found # {})
                       => /\ req'[s].result = OK
                          /\ \A from \in LinkStatus :
                               (\E l \in found : l.status = from)
                                 => \E k \in links' : /\ k.id = req[s].arg.link_id
                                                      /\ k.status = req[s].arg.status
      ]_vars

\* the owner of supplier 1 has set the first link BLOCKED and asks for PENDING:
\* the request passed the checks with the BLOCKED row loaded
C24_Witness ==
    /\ req[1].op = "update_link_status" /\ req[1].pc = "commit"
    /\ req[1].user = Owner1
    /\ req[1].loc.link.status = "BLOCKED"
    /\ req[1].arg.status = "PENDING"
    /\ \E l \in links : l.id = req[1].arg.link_id /\ l.status = "BLOCKED"

\* the suppliers that have an APPROVED links row with the consumer company
ApprovedSuppliersOf(consumer_id) ==
    {c \in CompanyIds : \E l \in links : /\ l.supplier_id = c
                                          /\ l.consumer_id = consumer_id
                                          /\ l.status = "APPROVED"}

\* the products a consumer company may see: of a supplier with an APPROVED
\* link to it, active and in stock
VisibleTo(consumer_id) ==
    {p \in ProductIds : /\ products[p].supplier_id \in ApprovedSuppliersOf(consumer_id)
                        /\ products[p].is_active
                        /\ products[p].stock_quantity > 0}

\* C25: a catalog read of a consumer that is answered 200 returns exactly the
\* products that, in the tables as they are when it is answered, belong to a
\* supplier with an APPROVED link to the consumer's company, are active and
\* have stock_quantity > 0 (of the supplier named by the filter, when one is
\* given); so it never returns a product of a supplier without an APPROVED
\* link, whatever link decision, block or stock edit came just before.
\* (SpecCatalog)
C25_CatalogExact ==
    [][\A s \in Slots :
        (/\ Handling(s, "get_catalog") /\ req[s].user.role = "CONSUMER"
         /\ req'[s].pc = "done" /\ req'[s].result.status_code = 200)
        => LET supplier_id == req[s].arg.supplier_id
           IN  req'[s].result.products =
                 {p \in VisibleTo(req[s].user.company_id) :
                    supplier_id = NoSupplier \/ products[p].supplier_id = supplier_id}
      ]_vars

\* supplier 4 approved consumer 2 and supplier 1 blocked it: the catalog of
\* consumer 2 is product 3 of supplier 4 and nothing of supplier 1
C25_Witness ==
    /\ req[1].op = "get_catalog" /\ req[1].pc = "done" /\ req[1].user = Buyer2
    /\ req[1].result = Listing({3})
    /\ BlacklistOfPair(1, 2) # {} /\ LinksOfPair(1, 2) = {}

\* C26: a consumer's read of a single product that is not in the set the
\* consumer may see (its supplier has no APPROVED link to the consumer, or it
\* is inactive, or its stock_quantity is 0) is answered 403.  (SpecCatalog)
C26_HiddenProductForbidden ==
    [][\A s \in Slots :
        (/\ Handling(s, "get_product_by_id") /\ req[s].user.role = "CONSUMER"
         /\ req'[s].pc = "done"
         /\ req[s].arg.product_id \in ProductIds
         /\ req[s].arg.product_id \notin VisibleTo(req[s].user.company_id))
        => req'[s].result.status_code = 403
      ]_vars

\* what get_product_by_id does check: a consumer's read of a product whose
\* supplier has no APPROVED link to the consumer is answered 403
NoLinkProductForbidden ==
    [][\A s \in Slots :
        (/\ Handling(s, "get_product_by_id") /\ req[s].user.role = "CONSUMER"
         /\ req'[s].pc = "done"
         /\ req[s].arg.product_id \in ProductIds
         /\ products[req[s].arg.product_id].supplier_id
              \notin ApprovedSuppliersOf(req[s].user.company_id))
        => req'[s].result.status_code = 403
      ]_vars

\* C27: a catalog read of a consumer with a supplier filter that names a
\* supplier without an APPROVED link to the consumer is answered 403, also
\* when the consumer has no APPROVED link at all.  (SpecCatalog)
C27_FilterForbidden ==
    [][\A s \in Slots :
        (/\ Handling(s, "get_catalog") /\ req[s].user.role = "CONSUMER"
         /\ req[s].pc = "start"
         /\ req[s].arg.supplier_id # NoSupplier
         /\ req[s].arg.supplier_id \notin ApprovedSuppliersOf(req[s].user.company_id))
        => req'[s].pc = "done" /\ req'[s].result.status_code = 403
      ]_vars

\* what get_catalog_for_consumer does check: the filter is refused with 403
\* when the consumer has an APPROVED link, but none with the named supplier
FilterForbiddenAmongLinks ==
    [][\A s \in Slots :
        (/\ Handling(s, "get_catalog") /\ req[s].user.role = "CONSUMER"
         /\ req[s].pc = "start"
         /\ req[s].arg.supplier_id # NoSupplier
         /\ ApprovedSuppliersOf(req[s].user.company_id) # {}
         /\ req[s].arg.supplier_id \notin ApprovedSuppliersOf(req[s].user.company_id))
        => req'[s].pc = "done" /\ req'[s].result.status_code = 403
      ]_vars

\* C28: a request emits notifications only in the step that commits its
\* mutation: the tables after the step hold the new order, or the order under
\* the status asked for, and the request is answered 200/201.  That some
\* broadcast did not get through changes neither the tables nor the answer,
\* and a request that ends with an error has emitted nothing.  (SpecCreate)
C28_NotifyAfterCommit ==
    [][\A s \in Slots :
        /\ (req'[s].sent # {} /\ req'[s].sent # req[s].sent)
              => /\ req[s].pc = "commit" /\ req'[s].pc = "done"
                 /\ req'[s].result.status_code \in {200, 201}
                 /\ req[s].op = "create_order"
                      => /\ Len(orders') = Len(orders) + 1
                         /\ orders'[Len(orders')].status = "PENDING"
                         /\ \A n \in req'[s].sent :
                              n.company_id = orders'[Len(orders')].supplier_id
                 /\ req[s].op = "update_order_status"
                      => /\ orders'[req[s].arg.order_id].status = req[s].arg.status
                         /\ products' = FlushProducts(products, req[s].loc.writes)
                         /\ {n.company_id : n \in req'[s].sent}
                              = {orders[req[s].arg.order_id].supplier_id,
                                 orders[req[s].arg.order_id].consumer_id}
                 /\ req[s].op = "update_product"
                      => products' = FlushProducts(products, req[s].loc.writes)
        /\ Failed(req'[s]) => req'[s].sent = {}
        /\ (Handling(s, "update_order_status") /\ req[s].pc = "commit")
              => req'[s].result = OK /\ req'[s].sent # {}
        /\ (Handling(s, "create_order") /\ req[s].pc = "commit" /\ Len(orders') > Len(orders))
              => req'[s].result = Response(201, "") /\ req'[s].sent # {}
      ]_vars

\* the acceptance of the order was committed and answered 200 although the
\* broadcast to one of the two companies did not get through: the order is
\* ACCEPTED and the stock of product 1 is down
C28_Witness ==
    /\ req[1].op = "update_order_status" /\ req[1].pc = "done" /\ req[1].result = OK
    /\ \E n, m \in req[1].sent : ~n.delivered /\ m.delivered
    /\ Len(orders) = 1 /\ orders[1].status = "ACCEPTED"
    /\ products[1].stock_quantity < MaxStock

\* the stock of product p that the acceptance of slot s read: what it is about
\* to write plus the quantity it took
StockRead(s, p) ==
    req[s].loc.writes[p].stock_quantity + Quantity(req[s].loc.order, p)

\* another transaction has committed a new stock of a product row since the
\* acceptance of slot s read it
Conflict(s) ==
    \E p \in DOMAIN req[s].loc.writes : products[p].stock_quantity # StockRead(s, p)

\* C29: an acceptance whose stock decrement conflicts with a transaction
\* committed in the meantime does not commit what it computed from the stale
\* row: it is run again (a bounded number of times) or answered with an
\* error, so its commit step writes nothing.  (SpecRace)
C29_ConflictRetried ==
    [][\A s \in Slots :
        (/\ Handling(s, "update_order_status") /\ req[s].pc = "commit"
         /\ req[s].arg.status = "ACCEPTED"
         /\ Conflict(s))
        => /\ products' = products /\ orders' = orders
           /\ req'[s].pc = "start" \/ Failed(req'[s])
      ]_vars

RECURSIVE HeldUpTo(_, _)
HeldUpTo(p, n) ==
    IF n = 0 THEN 0
    ELSE HeldUpTo(p, n - 1)
         + (IF orders[n].status \in {"ACCEPTED", "IN_DELIVERY", "COMPLETED"}
            THEN Quantity(orders[n], p) ELSE 0)

\* C31: with create_order and update_order_status requests only, the stock
\* of every product plus the quantities of it in the orders that are
\* ACCEPTED, IN_DELIVERY or COMPLETED is the stock the product started with.
\* (SpecLedger)
C31_StockLedger ==
    \A p \in ProductIds :
        products[p].stock_quantity + HeldUpTo(p, Len(orders))
            = InitialProducts[p].stock_quantity

\* C32: two acceptances of the same PENDING order in flight at once take the
\* quantity of each product of the order from its stock at most once: in
\* every state the stock of a product is at least what it was less the
\* quantity the order has of it.  (SpecTwice)
C32_DecrementedOnce ==
    \A p \in ProductIds :
        products[p].stock_quantity
            >= InitialProducts[p].stock_quantity - Quantity(orders[1], p)

\* C33: while company_blacklist has a row of a pair, no links row of the pair
\* is APPROVED, whatever link requests and link decisions came after the
\* block, and no create_order of the consumer with that supplier is answered
\* 201.  (Spec)
C33_BlacklistGate ==
    /\ [](\A b \in blacklist : ApprovedLinks(b.supplier_id, b.consumer_id) = {})
    /\ [][\A s \in Slots :
            (/\ Handling(s, "create_order")
             /\ req'[s].pc = "done" /\ req'[s].result.status_code = 201)
            => BlacklistOfPair(req[s].arg.supplier_id, req[s].user.company_id) = {}
         ]_vars

\* C34: when a block of consumer 2 by supplier 1 ran at the same time as a
\* create_order or an update_order_status of the pair and all of them are
\* answered, no order of the pair is PENDING, ACCEPTED or IN_DELIVERY; and an
\* acceptance that commits after the block rejected its order takes nothing
\* from the stock.  (SpecConc)
C34_BlockWins ==
    /\ []((/\ \A s \in Slots : req[s].pc = "done"
           /\ \E s \in Slots : req[s].op = "block_consumer" /\ req[s].result = OK)
          => \A o \in DOMAIN orders : ~Open(orders[o], 1, 2))
    /\ [][\A s \in Slots :
            (/\ Handling(s, "update_order_status") /\ req[s].pc = "commit"
             /\ req[s].arg.status = "ACCEPTED"
             /\ BlacklistOfPair(1, 2) # {}
             /\ orders[req[s].arg.order_id].status = "REJECTED")
            => products' = products
         ]_vars

\* C35: an edit that sets the stock of product 1 to n and an acceptance of an
\* order with q units of it, in flight at once and both answered 200, leave
\* the stock at n or at n - q.  Stated on the step that commits last: when
\* the edit commits after the acceptance, the stock after it is n or n - q;
\* when the acceptance commits after the edit, the stock before it is n and
\* after it n or n - q.  (SpecEdit)
C35_EditOrAcceptFirst ==
    [][LET q == Quantity(orders[1], 1)
       IN  /\ (/\ Handling(2, "update_product") /\ req[2].pc = "commit"
               /\ req[1].pc = "done" /\ req[1].result = OK)
              => LET n == req[2].arg.fields.stock_quantity
                 IN  products'[1].stock_quantity \in {n, n - q}
           /\ (/\ Handling(1, "update_order_status") /\ req[1].pc = "commit"
               /\ req[2].pc = "done" /\ req[2].result = OK)
              => LET n == products[1].stock_quantity
                 IN  products'[1].stock_quantity \in {n, n - q}
      ]_vars

\* C36: an order moves from PENDING to ACCEPTED only while an APPROVED link
\* between its supplier and its consumer exists: once the link is REJECTED,
\* BLOCKED or gone, the order that is still PENDING cannot be accepted.  (Spec)
C36_AcceptUnderApprovedLink ==
    [][\A s \in Slots :
         (/\ Handling(s, "update_order_status") /\ req[s].pc = "commit"
          /\ orders[req[s].arg.order_id].status = "PENDING"
          /\ orders'[req[s].arg.order_id].status = "ACCEPTED")
         => LET order == orders[req[s].arg.order_id]
            IN  ApprovedLinks(order.supplier_id, order.consumer_id) # {}
      ]_vars

\* C38: remove_connection of a caller for a consumer is answered 403 unless
\* the caller is SUPPLIER_OWNER or SUPPLIER_MANAGER, and 404 when the caller's
\* company has no link with the consumer, leaving every table as it was; a
\* removal that goes through is answered 200, deletes exactly the link of the
\* pair and leaves orders, stock and blacklist as they were; with no row of
\* the pair left, a link request of the consumer to that supplier goes on to
\* insert a new PENDING row under a fresh id.  (Spec)
C38_RemoveConnection ==
    [][\A s \in Slots :
        /\ (Handling(s, "remove_connection") /\ req[s].pc = "start")
              => LET permitted == req[s].user.role \in {"SUPPLIER_OWNER", "SUPPLIER_MANAGER"}
                     found == LinksOfPair(req[s].user.company_id, req[s].arg.consumer_id)
                 IN  /\ UNCHANGED db
                     /\ ~permitted => Failed(req'[s]) /\ req'[s].result.status_code = 403
                     /\ (permitted /\ found = {})
                           => Failed(req'[s]) /\ req'[s].result.status_code = 404
                     /\ (permitted /\ found # {})
                           => req'[s].pc = "commit" /\ req'[s].loc.link \in found
        /\ (Handling(s, "remove_connection") /\ req[s].pc = "commit")
              => /\ req'[s].pc = "done" /\ req'[s].result = OK
                 /\ req[s].loc.link \in links
                 /\ links' = links \ {req[s].loc.link}
                 /\ {l \in links' : /\ l.supplier_id = req[s].user.company_id
                                     /\ l.consumer_id = req[s].arg.consumer_id} = {}
                 /\ UNCHANGED <<products, orders, blacklist>>
        /\ (/\ Handling(s, "create_link_request") /\ req[s].pc = "start"
            /\ req[s].user = Buyer2 /\ req[s].arg.supplier_id = 1
            /\ LinksOfPair(1, 2) = {})
              => req'[s].pc = "commit"
        /\ (/\ Handling(s, "create_link_request") /\ req[s].pc = "commit"
            /\ req[s].user = Buyer2 /\ req[s].arg.supplier_id = 1)
              => /\ req'[s].result.status_code = 201
                 /\ LinksOfPair(1, 2) = {}
                 /\ links' = links \cup {[id |-> seq.links + 1, supplier_id |-> 1,
                                          consumer_id |-> 2, status |-> "PENDING"]}
                 /\ \A k \in links : k.id <= seq.links
      ]_vars

\* consumer 2 had a link and a PENDING order with supplier 1; nobody was ever
\* blocked, the link was removed, and a new link request of consumer 2 was
\* answered 201: the pair has one row, PENDING, under the next id, and the
\* order and the stock are as they were
C38_Witness ==
    /\ req[1].op = "create_link_request" /\ req[1].pc = "done"
    /\ req[1].result.status_code = 201
    /\ seq.blacklist = 0
    /\ \E l \in links : /\ LinksOfPair(1, 2) = {l}
                         /\ l.id = 2 /\ l.status = "PENDING"
    /\ Len(orders) = 1 /\ orders[1].status = "PENDING"
    /\ products = InitialProducts

\* C37: a block of consumer C by supplier S changes rows of that pair only:
\* every order of another pair, and every order of the pair that is already
\* COMPLETED, CANCELLED or REJECTED, is the same row after it, every link of
\* another pair is still there, no order or link is added, and the blacklist
\* gains rows of the pair only.  (SpecFrame)
C37_BlockFrame ==
    [][\A s \in Slots :
         Handling(s, "block_consumer")
         => LET S == req[s].user.company_id
                C == req[s].arg.consumer_id
            IN  /\ DOMAIN orders' = DOMAIN orders
                /\ \A o \in DOMAIN orders :
                      (\/ orders[o].supplier_id # S
                       \/ orders[o].consumer_id # C
                       \/ orders[o].status \in {"COMPLETED", "CANCELLED", "REJECTED"})
                      => orders'[o] = orders[o]
                /\ links' \subseteq links
                /\ \A l \in links : (l.supplier_id # S \/ l.consumer_id # C) => l \in links'
                /\ blacklist \subseteq blacklist'
                /\ \A b \in blacklist' \ blacklist : b.supplier_id = S /\ b.consumer_id = C
      ]_vars

\* supplier 1 blocked consumer 2: the open order of the pair is REJECTED and
\* its link is gone, the closed order of the pair, the order and link of
\* consumer 3 with supplier 1 and those of consumer 2 with supplier 4 are
\* as they were
C37_Witness ==
    /\ req[1].op = "block_consumer" /\ req[1].pc = "done" /\ req[1].result = OK
    /\ req[1].user = Owner1
    /\ BlacklistOfPair(1, 2) # {} /\ blacklist = BlacklistOfPair(1, 2)
    /\ LinksOfPair(1, 2) = {}
    /\ orders[1].status = "REJECTED" /\ orders[2].status = "COMPLETED"
    /\ orders[3].status = "PENDING" /\ orders[4].status = "ACCEPTED"
    /\ LinksOfPair(1, 3) # {} /\ LinksOfPair(4, 2) # {}

\* C39: an update_order_status that is answered with an error (order not
\* found, caller not permitted, consumer cancelling an order that is not
\* PENDING or ACCEPTED, insufficient stock) has written nothing: no step of
\* the request before its commit changes a table, the step that ends it in
\* error leaves every order and every stock as it was and closes the session
\* with nothing kept, and the commit step itself never fails, so the next call
\* starts from the tables the failed one found.  (SpecOrders)
C39_FailedUpdateNoEffect ==
    [][\A s \in Slots :
         Handling(s, "update_order_status")
         => /\ req[s].pc # "commit" => UNCHANGED db
            /\ req[s].pc = "commit" => req'[s].pc = "done" /\ req'[s].result = OK
            /\ Failed(req'[s])
                 => /\ req'[s].result.status_code \in {400, 403, 404}
                    /\ UNCHANGED db
                    /\ req'[s].loc = NoLoc /\ req'[s].arg = NoLoc
      ]_vars

\* the consumer's cancellation of its order in delivery was refused: the order
\* is still IN_DELIVERY and the stock is what the acceptance left
C39_Witness ==
    /\ req[1].op = "update_order_status" /\ req[1].pc = "done"
    /\ req[1].user = Buyer2
    /\ req[1].result = Response(400, "Order cannot be cancelled in current state")
    /\ orders[1].status = "IN_DELIVERY"
    /\ \E p \in Ordered(orders[1]) : products[p].stock_quantity < MaxStock

====
